---- MODULE Spec2Model ----
(***************************************************************************)
(* Model of the Wang tile filler of bevy_map_autotile (wang.rs): the       *)
(* positional colour model, the per-cell constraint record, scoring and    *)
(* selection, the three-phase WangFiller::apply, the paint functions that  *)
(* seed it and the preview functions that run it on a copy of the grid.    *)
(***************************************************************************)
EXTENDS Integers, Sequences, FiniteSets, TLC

\* ------------------------------------------------------------------------
\* Bounds of the model
\* ------------------------------------------------------------------------
\* Grid width and height.
W == 3
H == 2
\* Largest number of non-empty cells in a starting grid.
MaxFilled == 1
\* The draws of the generator fall on RngLevels evenly spaced levels of [0, 1),
\* next to the largest value it can yield.
RngLevels == 3

\* ------------------------------------------------------------------------
\* Option encodings
\* ------------------------------------------------------------------------
\* None of Option<u32> (an empty grid cell, or no tile selected).
NoTile == -1
\* None of a terrain slot of TileTerrainData.
NoTerrain == -1
\* None of Option<f32>: score_tile rejected the tile.
Rejected == -1
\* A u32 index that is not below the length of the grid slice.
HugeIndex == -2
\* Penalties are f32 values counted in steps of 2^-24: this is 1.0.
Unit == 16777216
\* f32::EPSILON = 2^-23, in the same steps.
Epsilon == 2
\* f32::MAX, the starting best penalty: above every sum of penalties.
F32Max == 2000000000
\* Width of TerrainId (u8).
U8 == 256

\* ------------------------------------------------------------------------
\* WangId: 8 colours, position i (0..7) stored at index i + 1
\* ------------------------------------------------------------------------
Positions == 0 .. 7

WILDCARD == <<0, 0, 0, 0, 0, 0, 0, 0>>

color_at_index(w, i) == w[(i % 8) + 1]

set_color_at_index(w, i, c) == [w EXCEPT ![(i % 8) + 1] = c]

opposite_index(i) == (i + 4) % 8

is_corner(i) == i % 2 = 1

wang_has_any_terrain(w) == \E i \in Positions : color_at_index(w, i) # 0

\* ------------------------------------------------------------------------
\* CellInfo: desired colours and hard mask
\* ------------------------------------------------------------------------
NoMask == <<FALSE, FALSE, FALSE, FALSE, FALSE, FALSE, FALSE, FALSE>>

CellInfoDefault == [desired |-> WILDCARD, mask |-> NoMask]

\* Mutant of set_constraint_at_index: the mask bit is set, the colour is not.
SetMaskOnly(cell, i, c) ==
    [desired |-> cell.desired,
     mask    |-> [k \in 1 .. 8 |-> IF k = (i % 8) + 1 THEN TRUE ELSE cell.mask[k]]]

set_constraint_at_index(cell, i, c) ==
    [desired |-> set_color_at_index(cell.desired, i, c),
     mask    |-> [cell.mask EXCEPT ![(i % 8) + 1] = TRUE]]

\* Mutant of set_preference_at_index: the colour is written whatever the mask.
PreferenceOverwrites(cell, i, c) ==
    [cell EXCEPT !.desired = set_color_at_index(cell.desired, i, c)]

set_preference_at_index(cell, i, c) ==
    IF cell.mask[(i % 8) + 1]
    THEN cell
    ELSE [cell EXCEPT !.desired = set_color_at_index(cell.desired, i, c)]

is_constrained_at_index(cell, i) == cell.mask[(i % 8) + 1]

\* ------------------------------------------------------------------------
\* Neighbour offsets (Y-up), indexed by position
\* ------------------------------------------------------------------------
NEIGHBOR_OFFSETS ==
    << <<0, 1>>, <<1, 1>>, <<1, 0>>, <<1, -1>>,
       <<0, -1>>, <<-1, -1>>, <<-1, 0>>, <<-1, 1>> >>

Neighbor(c, i) ==
    <<c[1] + NEIGHBOR_OFFSETS[i + 1][1], c[2] + NEIGHBOR_OFFSETS[i + 1][2]>>

\* Mutant of get_active_positions: the corners are the active positions in
\* every mode.
ActiveCorners(set_type) == <<1, 3, 5, 7>>

\* Mutant of get_active_positions: every position is active in every mode.
ActiveAll(set_type) == <<0, 1, 2, 3, 4, 5, 6, 7>>

get_active_positions(set_type) ==
    CASE set_type = "Corner" -> <<1, 3, 5, 7>>
      [] set_type = "Edge"   -> <<0, 2, 4, 6>>
      [] set_type = "Mixed"  -> <<0, 1, 2, 3, 4, 5, 6, 7>>

\* ------------------------------------------------------------------------
\* Grid
\* ------------------------------------------------------------------------
InBounds(c) == c[1] >= 0 /\ c[2] >= 0 /\ c[1] < W /\ c[2] < H

GridCoords == {c \in (0 .. W - 1) \X (0 .. H - 1) : TRUE}

\* y as u32 * width + x as u32, for an in-bounds coordinate.
Idx(c) == c[2] * W + c[1]

\* tiles.get(idx).copied().flatten()
GetTile(g, idx) == IF idx \in DOMAIN g THEN g[idx] ELSE NoTile

TileAt(g, c) == GetTile(g, Idx(c))

EmptyGrid == [k \in 0 .. W * H - 1 |-> NoTile]

\* ------------------------------------------------------------------------
\* Terrain set (crate::terrain): the description the filler borrows
\* ------------------------------------------------------------------------
\* A terrain set is a record:
\*   set_type      "Corner" | "Edge" | "Mixed"
\*   tile_terrains tile id -> terrain slots (terrain index or NoTerrain)
\*   order         the iteration order of tile_terrains
\*   penalty       <<from, to>> -> transition penalty
\*   prob          tile id -> selection probability
\*   init_tiles    the tile ids a starting grid may hold
AllSlots(n, t) == [k \in 1 .. n |-> t]

MixedSet ==
    [set_type      |-> "Mixed",
     tile_terrains |-> (0 :> AllSlots(8, 0)) @@ (1 :> AllSlots(8, 1))
                       @@ (2 :> <<2, 2, 0, 2, 2, 2, 2, 2>>)
                       @@ (3 :> AllSlots(8, NoTerrain)),
     order         |-> <<2, 0, 1, 3>>,
     penalty       |-> (<<0, 0>> :> 0) @@ (<<1, 1>> :> 0)
                       @@ (<<0, 1>> :> Unit) @@ (<<1, 0>> :> 2 * Unit),
     prob          |-> (0 :> 1) @@ (1 :> 1) @@ (2 :> 1) @@ (3 :> 1),
     init_tiles    |-> {1, 99}]

CornerSet ==
    [set_type      |-> "Corner",
     tile_terrains |-> (0 :> AllSlots(4, 0)) @@ (1 :> AllSlots(4, 1))
                       @@ (2 :> <<2, 0, 2, 2>>),
     order         |-> <<0, 2, 1>>,
     penalty       |-> (<<0, 0>> :> 0) @@ (<<1, 1>> :> 0)
                       @@ (<<0, 1>> :> Unit) @@ (<<1, 0>> :> Unit),
     prob          |-> (0 :> 2) @@ (1 :> 1) @@ (2 :> 1),
     init_tiles    |-> {1, 2}]

EdgeSet ==
    [set_type      |-> "Edge",
     tile_terrains |-> (10 :> AllSlots(4, 0)) @@ (11 :> AllSlots(4, 1))
                       @@ (12 :> <<0, 2, NoTerrain, 2>>),
     order         |-> <<11, 10, 12>>,
     penalty       |-> (<<0, 0>> :> 0) @@ (<<1, 1>> :> 0)
                       @@ (<<0, 1>> :> 0) @@ (<<1, 0>> :> 0),
     prob          |-> (10 :> 1) @@ (11 :> 1) @@ (12 :> 1),
     init_tiles    |-> {11, 12}]

\* A Mixed set of transition tiles: 20 has terrain 0 at TopRight; 21 has
\* terrain 0 at TopLeft and BottomLeft and terrain 2 at Left; 22 has terrain 0
\* at TopRight, terrain 2 at Right and nothing at Bottom; every other slot is
\* terrain 1.
PartialSet ==
    [set_type      |-> "Mixed",
     tile_terrains |-> (20 :> <<1, 1, 0, 1, 1, 1, 1, 1>>)
                       @@ (21 :> <<0, 1, 1, 1, 1, 1, 0, 2>>)
                       @@ (22 :> <<1, 1, 0, 2, 1, NoTerrain, 1, 1>>),
     order         |-> <<20, 21, 22>>,
     penalty       |-> (<<0, 0>> :> 0) @@ (<<1, 1>> :> 0)
                       @@ (<<0, 1>> :> Unit) @@ (<<1, 0>> :> Unit),
     prob          |-> (20 :> 1) @@ (21 :> 1) @@ (22 :> 1),
     init_tiles    |-> {20}]

\* A Mixed set whose only tile has terrain 1 (colour 2) at all 8 positions.
UniformSet ==
    [set_type      |-> "Mixed",
     tile_terrains |-> (30 :> AllSlots(8, 1)),
     order         |-> <<30>>,
     penalty       |-> (<<0, 0>> :> 0) @@ (<<1, 1>> :> 0)
                       @@ (<<0, 1>> :> Unit) @@ (<<1, 0>> :> Unit),
     prob          |-> (30 :> 1),
     init_tiles    |-> {30}]

\* An Edge set of two uniform tiles: 40 has colour 1 on every edge, 41 colour 2.
TwoEdgeSet ==
    [set_type      |-> "Edge",
     tile_terrains |-> (40 :> AllSlots(4, 0)) @@ (41 :> AllSlots(4, 1)),
     order         |-> <<41, 40>>,
     penalty       |-> (<<0, 0>> :> 0) @@ (<<1, 1>> :> 0)
                       @@ (<<0, 1>> :> Unit) @@ (<<1, 0>> :> 3 * Unit),
     prob          |-> (40 :> 1) @@ (41 :> 1),
     init_tiles    |-> {41}]

\* A Mixed set whose transition penalties from terrain 0 lie closer together
\* than f32::EPSILON: 2^-24 to terrain 1 and 2^-23 to terrain 2. Tile 50 is
\* terrain 0 everywhere, 51 terrain 1 everywhere, 52 terrain 1 except terrain 2
\* at TopRight, 53 has no terrain.
FineSet ==
    [set_type      |-> "Mixed",
     tile_terrains |-> (50 :> AllSlots(8, 0)) @@ (51 :> AllSlots(8, 1))
                       @@ (52 :> <<1, 1, 2, 1, 1, 1, 1, 1>>)
                       @@ (53 :> AllSlots(8, NoTerrain)),
     order         |-> <<50, 51, 52, 53>>,
     penalty       |-> (<<0, 0>> :> 0) @@ (<<1, 1>> :> 0) @@ (<<2, 2>> :> 0)
                       @@ (<<0, 1>> :> 1) @@ (<<0, 2>> :> 2),
     prob          |-> (50 :> 1) @@ (51 :> 1) @@ (52 :> 1) @@ (53 :> 1),
     init_tiles    |-> {50}]

\* The orders in which a hash map may yield the keys S.
Orders(S) ==
    {o \in [1 .. Cardinality(S) -> S] :
        \A i, j \in 1 .. Cardinality(S) : i # j => o[i] # o[j]}

\* FineSet under every iteration order of its tile_terrains.
FineSets == {[FineSet EXCEPT !.order = o] : o \in Orders(DOMAIN FineSet.tile_terrains)}

TerrainSets == {MixedSet, CornerSet, EdgeSet, PartialSet, UniformSet, TwoEdgeSet}

\* terrain_set.get_tile_terrain(tile): Some(data) iff the tile has an entry.
has_tile_terrain(ts, tile) == tile \in DOMAIN ts.tile_terrains

get_tile_terrain(ts, tile) == ts.tile_terrains[tile]

\* TileTerrainData::get(i): the terrain index of slot i, or None.
data_get(data, i) == IF i + 1 \in DOMAIN data THEN data[i + 1] ELSE NoTerrain

\* TileTerrainData::has_any_terrain
has_any_terrain(data) == \E k \in DOMAIN data : data[k] # NoTerrain

transition_penalty(ts, from, to) ==
    IF <<from, to>> \in DOMAIN ts.penalty THEN ts.penalty[<<from, to>>]
    ELSE IF from = to THEN 0 ELSE Unit

get_tile_probability(ts, tile) ==
    IF tile \in DOMAIN ts.prob THEN ts.prob[tile] ELSE 1

\* ------------------------------------------------------------------------
\* WangFiller: conversion, surroundings, scoring, selection
\* ------------------------------------------------------------------------
\* (t + 1) as u8
ColorOf(t) == (t + 1) % U8

\* Mutant of SlotPositions: the Mixed table in every mode.
SlotPositionsMixed(set_type) == <<7, 0, 1, 2, 3, 4, 5, 6>>

\* The slot -> position table of tile_terrain_to_wang_id, per set type.
SlotPositions(set_type) ==
    CASE set_type = "Corner" -> <<7, 1, 5, 3>>
      [] set_type = "Edge"   -> <<0, 2, 4, 6>>
      [] set_type = "Mixed"  -> <<7, 0, 1, 2, 3, 4, 5, 6>>

RECURSIVE SlotsToWang(_, _, _, _)
SlotsToWang(data, table, k, wang) ==
    IF k > Len(table) THEN wang
    ELSE LET t == data_get(data, k - 1)
         IN  SlotsToWang(data, table, k + 1,
                 IF t # NoTerrain
                 THEN set_color_at_index(wang, table[k], ColorOf(t))
                 ELSE wang)

tile_terrain_to_wang_id(ts, data) ==
    SlotsToWang(data, SlotPositions(ts.set_type), 1, WILDCARD)

\* The WangId of a grid tile, or the wildcard when it has no terrain data.
TileWang(ts, tile) ==
    IF tile # NoTile /\ has_tile_terrain(ts, tile)
    THEN tile_terrain_to_wang_id(ts, get_tile_terrain(ts, tile))
    ELSE WILDCARD

\* Mutant of SurroundColor: a tile without terrain data contributes colour 1.
SurroundColorAny(ts, g, c, i) ==
    LET n == Neighbor(c, i)
    IN  IF InBounds(n)
        THEN LET tile == TileAt(g, n)
             IN  IF tile # NoTile
                 THEN IF has_tile_terrain(ts, tile)
                      THEN color_at_index(TileWang(ts, tile), opposite_index(i))
                      ELSE 1
                 ELSE 0
        ELSE 0

\* Colour contributed at position i of (x, y) by the neighbour in direction i.
SurroundColor(ts, g, c, i) ==
    LET n == Neighbor(c, i)
    IN  IF InBounds(n)
        THEN LET tile == TileAt(g, n)
             IN  IF tile # NoTile /\ has_tile_terrain(ts, tile)
                 THEN color_at_index(TileWang(ts, tile), opposite_index(i))
                 ELSE 0
        ELSE 0

wang_id_from_surroundings(ts, g, c) ==
    [k \in 1 .. 8 |-> SurroundColor(ts, g, c, k - 1)]

\* ------------------------------------------------------------------------
\* f32 arithmetic
\* ------------------------------------------------------------------------
\* An f32 is <<m, e>>, the value m * 2^e: m = 0 and e = 0 for zero, else
\* 2^23 <= |m| < 2^24. Every operation rounds its exact result to the nearest
\* f32, ties to the even mantissa, as IEEE 754 does.
Abs(x) == IF x < 0 THEN 0 - x ELSE x

RECURSIVE Pow2(_)
Pow2(n) ==
    IF n <= 0 THEN 1
    ELSE IF n >= 8 THEN 256 * Pow2(n - 8)
    ELSE 2 * Pow2(n - 1)

\* The number of bits of a >= 0.
RECURSIVE BitLen(_)
BitLen(a) ==
    IF a = 0 THEN 0
    ELSE IF a >= 16777216 THEN 24 + BitLen(a \div 16777216)
    ELSE IF a >= 4096 THEN 12 + BitLen(a \div 4096)
    ELSE IF a >= 64 THEN 6 + BitLen(a \div 64)
    ELSE 1 + BitLen(a \div 2)

\* The f32 nearest to s * 2^e.
F32Of(s, e) ==
    IF s = 0 THEN <<0, 0>>
    ELSE LET a    == Abs(s)
             sign == IF s < 0 THEN -1 ELSE 1
             sh   == BitLen(a) - 24
         IN  IF sh <= 0 THEN <<sign * a * Pow2(0 - sh), e + sh>>
             ELSE LET p  == Pow2(sh)
                      q  == a \div p
                      r  == a % p
                      up == r > p \div 2 \/ (r = p \div 2 /\ q % 2 = 1)
                      q2 == IF up THEN q + 1 ELSE q
                  IN  IF q2 = 16777216 THEN <<sign * 8388608, e + sh + 1>>
                      ELSE <<sign * q2, e + sh>>

\* x / 2^d for x >= 0, the lowest bit set when a non-zero bit was shifted out.
ShiftJam(x, d) ==
    IF d >= 30 THEN (IF x # 0 THEN 1 ELSE 0)
    ELSE LET q == x \div Pow2(d)
         IN  IF x % Pow2(d) # 0 /\ q % 2 = 0 THEN q + 1 ELSE q

\* a + b
FAdd(a, b) ==
    IF a[1] = 0 THEN b
    ELSE IF b[1] = 0 THEN a
    ELSE LET big   == IF a[2] >= b[2] THEN a ELSE b
             small == IF a[2] >= b[2] THEN b ELSE a
             y     == ShiftJam(Abs(small[1]) * 8, big[2] - small[2])
         IN  F32Of(big[1] * 8 + (IF small[1] < 0 THEN 0 - y ELSE y), big[2] - 3)

\* a - b
FSub(a, b) == FAdd(a, <<0 - b[1], b[2]>>)

\* a * b: the 48-bit product of the mantissas, from 12-bit halves.
FMul(a, b) ==
    IF a[1] = 0 \/ b[1] = 0 THEN <<0, 0>>
    ELSE LET ma   == Abs(a[1])
             mb   == Abs(b[1])
             a1   == ma \div 4096
             a0   == ma % 4096
             b1   == mb \div 4096
             b0   == mb % 4096
             mid  == a1 * b0 + a0 * b1
             low  == (mid % 4096) * 4096 + a0 * b0
             hi   == a1 * b1 + mid \div 4096 + low \div 16777216
             lo   == low % 16777216
             t    == lo \div 2097152
             s    == hi * 8 + (IF lo % 2097152 # 0 /\ t % 2 = 0 THEN t + 1 ELSE t)
             sign == IF (a[1] < 0) = (b[1] < 0) THEN 1 ELSE -1
         IN  F32Of(sign * s, a[2] + b[2] + 21)

\* a / b, for b # 0: 27 bits of the quotient of the mantissas by long
\* division, the first alone, then 7, 7, 6 and 6 at a time.
FDiv(a, b) ==
    IF a[1] = 0 THEN <<0, 0>>
    ELSE LET ma   == Abs(a[1])
             mb   == Abs(b[1])
             q0   == IF ma >= mb THEN 1 ELSE 0
             r0   == ma - q0 * mb
             q1   == (r0 * 128) \div mb
             r1   == (r0 * 128) % mb
             q2   == (r1 * 128) \div mb
             r2   == (r1 * 128) % mb
             q3   == (r2 * 64) \div mb
             r3   == (r2 * 64) % mb
             q4   == (r3 * 64) \div mb
             r4   == (r3 * 64) % mb
             q    == (((q0 * 128 + q1) * 128 + q2) * 64 + q3) * 64 + q4
             sign == IF (a[1] < 0) = (b[1] < 0) THEN 1 ELSE -1
         IN  F32Of(sign * (2 * q + (IF r4 # 0 THEN 1 ELSE 0)), a[2] - b[2] - 27)

\* A penalty is an f32 >= 0 that is a whole number of steps of 2^-24, held as
\* that number. The f32 of a count of steps, and the f32 sum of two penalties.
PenaltyF32(x) == F32Of(x, -24)

PenaltyAdd(x, y) ==
    IF x + y < Unit THEN x + y
    ELSE LET f == F32Of(x + y, 0) IN f[1] * Pow2(f[2])

RECURSIVE ScoreFrom(_, _, _, _, _, _)
ScoreFrom(ts, cell, tile_wang, act, k, penalty) ==
    IF k > Len(act) THEN penalty
    ELSE LET i    == act[k]
             want == color_at_index(cell.desired, i)
             have == color_at_index(tile_wang, i)
         IN  IF cell.mask[i + 1]
             THEN IF want # have THEN Rejected
                  ELSE ScoreFrom(ts, cell, tile_wang, act, k + 1, penalty)
             ELSE IF want # 0 /\ want # have
                  THEN IF have = 0
                       THEN ScoreFrom(ts, cell, tile_wang, act, k + 1, PenaltyAdd(penalty, Unit))
                       ELSE ScoreFrom(ts, cell, tile_wang, act, k + 1,
                                PenaltyAdd(penalty,
                                    transition_penalty(ts, want - 1, have - 1)))
                  ELSE ScoreFrom(ts, cell, tile_wang, act, k + 1, penalty)

score_tile(ts, cell, tile_wang) ==
    ScoreFrom(ts, cell, tile_wang, get_active_positions(ts.set_type), 1, 0)

\* tile_prob / (1.0 + penalty)
Weight(tile_prob, penalty) ==
    FDiv(F32Of(tile_prob, 0), FAdd(F32Of(1, 0), PenaltyF32(penalty)))

\* The candidate list of find_best_match: <<tile id, weight>> in iteration
\* order.
RECURSIVE CandidatesFrom(_, _, _, _, _)
CandidatesFrom(ts, cell, k, best, cands) ==
    IF k > Len(ts.order) THEN cands
    ELSE LET tile_id == ts.order[k]
             data    == get_tile_terrain(ts, tile_id)
         IN  IF ~has_any_terrain(data)
             THEN CandidatesFrom(ts, cell, k + 1, best, cands)
             ELSE LET penalty == score_tile(ts, cell, tile_terrain_to_wang_id(ts, data))
                  IN  IF penalty = Rejected
                      THEN CandidatesFrom(ts, cell, k + 1, best, cands)
                      ELSE LET b  == IF penalty < best THEN penalty ELSE best
                               cs == IF penalty < best THEN <<>> ELSE cands
                           IN  CandidatesFrom(ts, cell, k + 1, b,
                                   IF Abs(penalty - b) < Epsilon
                                   THEN Append(cs, <<tile_id,
                                            Weight(get_tile_probability(ts, tile_id),
                                                   penalty)>>)
                                   ELSE cs)

\* Mutant of Candidates: every accepted tile is a candidate.
CandidatesAll(ts, cell) ==
    LET Accepts(tile_id) ==
            /\ has_any_terrain(get_tile_terrain(ts, tile_id))
            /\ score_tile(ts, cell, TileWang(ts, tile_id)) # Rejected
        acc == SelectSeq(ts.order, Accepts)
    IN  [j \in 1 .. Len(acc) |->
            <<acc[j], Weight(get_tile_probability(ts, acc[j]),
                             score_tile(ts, cell, TileWang(ts, acc[j])))>>]

Candidates(ts, cell) == CandidatesFrom(ts, cell, 1, F32Max, <<>>)

\* candidates.iter().map(|(_, p)| p).sum(), over the first j candidates.
RECURSIVE Total(_, _)
Total(cands, j) ==
    IF j = 0 THEN <<0, 0>> ELSE FAdd(Total(cands, j - 1), cands[j][2])

\* random_pick draws from the generator only past its three early returns.
NeedsDraw(cands) == Len(cands) >= 2 /\ Total(cands, Len(cands))[1] > 0

\* gen::<f32>() yields n * 2^-24 for a 24-bit n. Draw k of the model is the
\* largest such value that is at most k / RngLevels, and draw RngLevels is
\* the largest value of the generator, (2^24 - 1) * 2^-24.
Draw(k) ==
    IF k >= RngLevels THEN F32Of(16777215, -24)
    ELSE F32Of((k * 16777216) \div RngLevels, -24)

\* The loop of random_pick from candidate j on.
RECURSIVE PickFrom(_, _, _)
PickFrom(cands, j, random_val) ==
    IF j > Len(cands) THEN cands[Len(cands)][1]
    ELSE LET v == FSub(random_val, cands[j][2])
         IN  IF v[1] <= 0 THEN cands[j][1] ELSE PickFrom(cands, j + 1, v)

\* random_pick with the draw Draw(k).
random_pick(cands, k) ==
    IF Len(cands) = 0 THEN NoTile
    ELSE IF Len(cands) = 1 THEN cands[1][1]
    ELSE LET total == Total(cands, Len(cands))
         IN  IF total[1] <= 0 THEN cands[1][1]
             ELSE PickFrom(cands, 1, FMul(Draw(k), total))

find_best_match(ts, cell, k) == random_pick(Candidates(ts, cell), k)

\* Mutant of update_adjacent: the constraint lands on the same position.
UpdateAdjacentSame(cell, placed_wang, dir_idx) ==
    [desired |-> set_color_at_index(cell.desired, dir_idx,
                                    color_at_index(placed_wang, dir_idx)),
     mask    |-> [cell.mask EXCEPT ![dir_idx + 1] = TRUE]]

\* update_adjacent: hard constraint on the neighbour's opposite position.
update_adjacent(cell, placed_wang, dir_idx) ==
    [desired |-> set_color_at_index(cell.desired, opposite_index(dir_idx),
                     color_at_index(placed_wang, dir_idx)),
     mask    |-> [cell.mask EXCEPT ![opposite_index(dir_idx) + 1] = TRUE]]

\* Mutant of cell_violates_constraints: every record counts as violated.
ViolatesAlways(cell, tile_wang) == TRUE

cell_violates_constraints(cell, tile_wang) ==
    \E i \in Positions :
        /\ cell.mask[i + 1]
        /\ color_at_index(cell.desired, i) # 0
        /\ color_at_index(cell.desired, i) # color_at_index(tile_wang, i)

\* ------------------------------------------------------------------------
\* Paint targets and the paint functions' tables
\* ------------------------------------------------------------------------
Corner(cx, cy) == [kind |-> "Corner", a |-> cx, b |-> cy]

HorizontalEdge(tx, ey) == [kind |-> "HorizontalEdge", a |-> tx, b |-> ey]

VerticalEdge(ex, ty) == [kind |-> "VerticalEdge", a |-> ex, b |-> ty]

\* Targets whose affected cells lie inside, across and outside the grid's border.
Targets ==
    {Corner(x, y) : x \in 0 .. W, y \in 0 .. H}
    \cup {HorizontalEdge(x, y) : x \in 0 .. W, y \in 0 .. H}
    \cup {VerticalEdge(x, y) : x \in 0 .. W, y \in 0 .. H}

\* The kinds of target get_paint_target resolves to for a set type: corners in
\* Corner mode, edges in Edge mode, both in Mixed mode.
\* f32 values that are multiples of 2^-25 are held as integers in that unit:
\* 1.0, 0.5, and the literals 0.33, 0.67 and 0.34 as f32 rounds them.
FixedOne == 33554432
FixedHalf == 16777216
Fixed033 == 11072963
Fixed067 == 22481470
Fixed034 == 11408507

\* f32::floor as i32, for a quotient q held in units of 2^-25.
FloorTile(q) == q \div FixedOne

\* f32::fract: q - q.trunc(), negative for negative q.
Fract(q) ==
    IF q >= 0 THEN q - (q \div FixedOne) * FixedOne
    ELSE 0 - ((0 - q) - ((0 - q) \div FixedOne) * FixedOne)

\* The position inside the tile: the fractional part, plus 1.0 when negative.
\* The sum is rounded to f32: at 0.5 and above it falls on a multiple of 2^-24
\* and can be 1.0 itself.
Local(q) ==
    IF Fract(q) < 0
    THEN LET s == Fract(q) + FixedOne
             f == F32Of(s, 0)
         IN  IF s < FixedHalf THEN s ELSE f[1] * Pow2(f[2])
    ELSE Fract(q)

\* Mutant of ClampU32: the coordinate is kept as it is.
ClampNone(n) == n

\* n.max(0) as u32
ClampU32(n) == IF n > 0 THEN n ELSE 0

\* The zone of the 3x3 division of a tile in Mixed mode.
Zone(local) == IF local < Fixed033 THEN 0 ELSE IF local < Fixed067 THEN 1 ELSE 2

\* (local - 0.33) / 0.34 < 0.5: local - 0.33 is exact, and the quotient rounds
\* below 0.5 exactly when twice the difference is below 0.34.
CenterLow(local) == 2 * (local - Fixed033) < Fixed034

\* get_paint_target after world / tile_size: tx, ty the tile, lx, ly the
\* position inside it.
PaintTargetIn(tx, ty, lx, ly, set_type) ==
    CASE set_type = "Corner" ->
            Corner(ClampU32(IF lx < FixedHalf THEN tx ELSE tx + 1),
                   ClampU32(IF ly < FixedHalf THEN ty ELSE ty + 1))
      [] set_type = "Edge" ->
            IF Abs(ly - FixedHalf) < Abs(lx - FixedHalf)
            THEN HorizontalEdge(ClampU32(tx),
                                ClampU32(IF ly < FixedHalf THEN ty ELSE ty + 1))
            ELSE VerticalEdge(ClampU32(IF lx < FixedHalf THEN tx ELSE tx + 1),
                              ClampU32(ty))
      [] set_type = "Mixed" ->
            LET z == <<Zone(lx), Zone(ly)>>
            IN  CASE z = <<0, 0>> -> Corner(ClampU32(tx), ClampU32(ty))
                  [] z = <<2, 0>> -> Corner(ClampU32(tx + 1), ClampU32(ty))
                  [] z = <<0, 2>> -> Corner(ClampU32(tx), ClampU32(ty + 1))
                  [] z = <<2, 2>> -> Corner(ClampU32(tx + 1), ClampU32(ty + 1))
                  [] z = <<1, 0>> -> HorizontalEdge(ClampU32(tx), ClampU32(ty))
                  [] z = <<1, 2>> -> HorizontalEdge(ClampU32(tx), ClampU32(ty + 1))
                  [] z = <<0, 1>> -> VerticalEdge(ClampU32(tx), ClampU32(ty))
                  [] z = <<2, 1>> -> VerticalEdge(ClampU32(tx + 1), ClampU32(ty))
                  [] z = <<1, 1>> ->
                        Corner(ClampU32(IF CenterLow(lx) THEN tx ELSE tx + 1),
                               ClampU32(IF CenterLow(ly) THEN ty ELSE ty + 1))

\* get_paint_target for world coordinates that are multiples of 2^-25 and a
\* tile size that divides them exactly.
get_paint_target(world_x, world_y, tile_size, set_type) ==
    PaintTargetIn(FloorTile(world_x \div tile_size), FloorTile(world_y \div tile_size),
                  Local(world_x \div tile_size), Local(world_y \div tile_size),
                  set_type)

TargetKinds(set_type) ==
    CASE set_type = "Corner" -> {"Corner"}
      [] set_type = "Edge"   -> {"HorizontalEdge", "VerticalEdge"}
      [] set_type = "Mixed"  -> {"Corner", "HorizontalEdge", "VerticalEdge"}

TargetsOf(set_type) == {t \in Targets : t.kind \in TargetKinds(set_type)}

TerrainIndices == {0, 1}

\* Mutant of Affected: the corner table names the two upper cells' positions
\* for the lower cells and the edge tables name the far edge.
AffectedSwapped(t) ==
    CASE t.kind = "Corner" ->
             << <<t.a - 1, t.b - 1, 3>>, <<t.a, t.b - 1, 5>>,
                <<t.a - 1, t.b, 1>>, <<t.a, t.b, 7>> >>
      [] t.kind = "HorizontalEdge" ->
             << <<t.a, t.b - 1, 4>>, <<t.a, t.b, 0>> >>
      [] t.kind = "VerticalEdge" ->
             << <<t.a - 1, t.b, 6>>, <<t.a, t.b, 2>> >>

\* The `affected` array of the paint functions: <<x, y, position>>.
Affected(t) ==
    CASE t.kind = "Corner" ->
             << <<t.a - 1, t.b - 1, 1>>, <<t.a, t.b - 1, 7>>,
                <<t.a - 1, t.b, 3>>, <<t.a, t.b, 5>> >>
      [] t.kind = "HorizontalEdge" ->
             << <<t.a, t.b - 1, 0>>, <<t.a, t.b, 4>> >>
      [] t.kind = "VerticalEdge" ->
             << <<t.a - 1, t.b, 2>>, <<t.a, t.b, 6>> >>

\* Mutant of PaintKeeps: affected cells are not tested against the grid.
PaintKeepsAll(c) == TRUE

\* The bounds test the paint functions apply to an affected cell.
PaintKeeps(c) == InBounds(c)

\* x | m for a one-bit mask m.
BitOr(x, m) == IF (x \div m) % 2 = 1 THEN x ELSE x + m

\* The u64 seed as <<high word, low word>>.
SeedOf(t) ==
    CASE t.kind = "Corner"         -> <<t.a, t.b>>
      [] t.kind = "HorizontalEdge" -> <<BitOr(t.a, 268435456), t.b>>
      [] t.kind = "VerticalEdge"   -> <<BitOr(t.a, 536870912), t.b>>

GetCell(cs, c) == IF c \in DOMAIN cs THEN cs[c] ELSE CellInfoDefault

PutCell(cs, c, info) == [k \in DOMAIN cs \cup {c} |-> IF k = c THEN info ELSE cs[k]]

SeqContains(sq, e) == \E j \in 1 .. Len(sq) : sq[j] = e

SeqSet(sq) == {sq[j] : j \in 1 .. Len(sq)}

\* Mutant of PaintSetup: the two positions next to the painted one are
\* constrained as well.
RECURSIVE PaintSetupAdjacent(_, _, _, _, _)
PaintSetupAdjacent(t, color, k, cs, reg) ==
    IF k > Len(Affected(t)) THEN [cells |-> cs, region |-> reg]
    ELSE LET e == Affected(t)[k]
             c == <<e[1], e[2]>>
             wide == set_constraint_at_index(
                         set_constraint_at_index(
                             set_constraint_at_index(GetCell(cs, c), e[3], color),
                             e[3] + 1, color),
                         e[3] + 7, color)
         IN  IF InBounds(c)
             THEN PaintSetupAdjacent(t, color, k + 1, PutCell(cs, c, wide),
                      IF SeqContains(reg, c) THEN reg ELSE Append(reg, c))
             ELSE PaintSetupAdjacent(t, color, k + 1, cs, reg)

\* The loop of the paint functions over `affected`: hard constraints installed
\* and the region collected (the edge functions push a cell only once).
RECURSIVE PaintSetup(_, _, _, _, _)
PaintSetup(t, color, k, cs, reg) ==
    IF k > Len(Affected(t)) THEN [cells |-> cs, region |-> reg]
    ELSE LET e == Affected(t)[k]
             c == <<e[1], e[2]>>
         IN  IF PaintKeeps(c)
             THEN PaintSetup(t, color, k + 1,
                      PutCell(cs, c, set_constraint_at_index(GetCell(cs, c), e[3], color)),
                      IF t.kind # "Corner" /\ SeqContains(reg, c)
                      THEN reg ELSE Append(reg, c))
             ELSE PaintSetup(t, color, k + 1, cs, reg)

NoCells == [c \in {} |-> CellInfoDefault]

\* get_affected_region
RegionCorner(t) ==
    LET cand == << <<t.a - 1, t.b - 1>>, <<t.a, t.b - 1>>,
                   <<t.a - 1, t.b>>, <<t.a, t.b>> >>
    IN  SelectSeq(cand, LAMBDA c : c[1] >= 0 /\ c[2] >= 0 /\ c[1] < W /\ c[2] < H)

\* Mutant of RegionHorizontal: the cell above the edge comes first.
RegionHorizontalReversed(t) ==
    (IF t.a >= 0 /\ t.a < W /\ t.b >= 0 /\ t.b < H
     THEN << <<t.a, t.b>> >> ELSE <<>>)
    \o (IF t.b > 0 /\ t.a >= 0 /\ t.a < W /\ t.b - 1 < H
        THEN << <<t.a, t.b - 1>> >> ELSE <<>>)

RegionHorizontal(t) ==
    (IF t.b > 0 /\ t.a >= 0 /\ t.a < W /\ t.b - 1 < H
     THEN << <<t.a, t.b - 1>> >> ELSE <<>>)
    \o (IF t.a >= 0 /\ t.a < W /\ t.b >= 0 /\ t.b < H
        THEN << <<t.a, t.b>> >> ELSE <<>>)

RegionVertical(t) ==
    (IF t.a > 0 /\ t.b >= 0 /\ t.b < H /\ t.a - 1 < W
     THEN << <<t.a - 1, t.b>> >> ELSE <<>>)
    \o (IF t.a >= 0 /\ t.a < W /\ t.b >= 0 /\ t.b < H
        THEN << <<t.a, t.b>> >> ELSE <<>>)

get_affected_region(t) ==
    CASE t.kind = "Corner"         -> RegionCorner(t)
      [] t.kind = "HorizontalEdge" -> RegionHorizontal(t)
      [] t.kind = "VerticalEdge"   -> RegionVertical(t)

\* ------------------------------------------------------------------------
\* State
\* ------------------------------------------------------------------------
VARIABLES
    ts,                  \* the terrain set
    tiles,               \* the caller's grid
    preview_tiles,       \* the copy a preview paints on
    original,            \* preview: the snapshot of the affected cells
    result,              \* preview: the returned set of <<coordinate, tile>>
    op,                  \* the call in progress, or the last one
    pc,                  \* position inside the call
    stage,               \* number of calls that have returned
    targets, tix,        \* the targets of the call and the one being painted
    terrain_index,
    region, ri,          \* apply's region and the loop index of the phase
    cells,               \* WangFiller.cells
    corrections,         \* WangFiller.corrections
    corrections_enabled, \* WangFiller.corrections_enabled
    correction_list,     \* the list Phase 3 took from corrections
    seed, rng_pos,       \* WangFiller.rng: its seed and the draws consumed
    streams,             \* seed -> the draws its generator has produced so far
    tiles0,              \* the grid apply started from
    installed,           \* the cells the caller installed before apply
    placed,              \* coordinates written by Phase 2 of this apply
    corrected,           \* coordinates written by Phase 3 of this apply
    touched,             \* coordinates a grid index was computed for
    prev_out,            \* the grid the previous call's fill produced
    call,                \* a single function under examination and its inputs
    ret                  \* what that function returned

vars ==
    <<ts, tiles, preview_tiles, original, result, op, pc, stage,
      targets, tix, terrain_index, region, ri, cells, corrections,
      corrections_enabled, correction_list, seed, rng_pos, streams, tiles0,
      installed, placed, corrected, touched, prev_out, call, ret>>

\* No function is examined on its own while the paint calls run.
NoCall == [fn |-> "none"]

Pending == <<"pending">>

\* A preview works on its copy, every other call on the caller's slice.
OnCopy(o) == o \in {"preview", "preview_many"}

Buf == IF OnCopy(op) THEN preview_tiles ELSE tiles

\* Mutant of Store: the preview's writes reach the caller's slice.
StoreThrough(g) == tiles' = g /\ preview_tiles' = g

Store(g) ==
    IF OnCopy(op)
    THEN preview_tiles' = g /\ tiles' = tiles
    ELSE tiles' = g /\ preview_tiles' = preview_tiles

\* ------------------------------------------------------------------------
\* Init: a terrain set, a build and a starting grid
\* ------------------------------------------------------------------------
\* Grids with at most MaxFilled non-empty cells.
SparseGrids(t) ==
    {[k \in 0 .. W * H - 1 |-> IF k \in S THEN f[k] ELSE NoTile] :
        <<S, f>> \in UNION {{<<S1, f1>> : f1 \in [S1 -> t.init_tiles]} :
                            S1 \in {S2 \in SUBSET (0 .. W * H - 1) :
                                       Cardinality(S2) <= MaxFilled}}}

\* Grids with two tiles: side by side, and diagonal.
PairGrids(t) ==
    {[k \in 0 .. W * H - 1 |->
         IF k = Idx(p[1]) THEN a ELSE IF k = Idx(p[2]) THEN b ELSE NoTile] :
        p \in {<< <<0, 0>>, <<1, 0>> >>, << <<1, 0>>, <<2, 1>> >>},
        a \in t.init_tiles, b \in t.init_tiles}

InitGrids(t) == SparseGrids(t) \cup PairGrids(t)

Init ==
    /\ ts \in TerrainSets
    /\ tiles \in InitGrids(ts)
    /\ preview_tiles = <<>>
    /\ original = <<>>
    /\ result = {}
    /\ op = "none"
    /\ pc = "idle"
    /\ stage = 0
    /\ targets = <<>>
    /\ tix = 0
    /\ terrain_index = 0
    /\ region = <<>>
    /\ ri = 0
    /\ cells = NoCells
    /\ corrections = <<>>
    /\ corrections_enabled = FALSE
    /\ correction_list = <<>>
    /\ seed = <<0, 0>>
    /\ rng_pos = 0
    /\ streams = <<>>
    /\ tiles0 = tiles
    /\ installed = NoCells
    /\ placed = {}
    /\ corrected = {}
    /\ touched = {}
    /\ prev_out = <<>>
    /\ call = NoCall
    /\ ret = Pending

\* ------------------------------------------------------------------------
\* The filler a call constructs
\* ------------------------------------------------------------------------
\* Mutant of RngStart: one generator shared by all fillers, never reseeded.
RngKeep(pos) == pos

\* SmallRng::seed_from_u64: a fresh generator, no draw consumed yet.
RngStart(pos) == 0

\* A filler with the given cells, region and seed, at the start of apply.
BeginApply(cs, reg, sd) ==
    /\ cells' = cs
    /\ installed' = cs
    /\ region' = reg
    /\ ri' = 1
    /\ corrections' = <<>>
    /\ corrections_enabled' = FALSE
    /\ correction_list' = <<>>
    /\ seed' = sd
    /\ rng_pos' = RngStart(rng_pos)
    /\ streams' = IF sd \in DOMAIN streams THEN streams
                  ELSE [k \in DOMAIN streams \cup {sd} |->
                           IF k = sd THEN <<>> ELSE streams[k]]
    /\ placed' = {}
    /\ corrected' = {}
    /\ touched' = {}
    /\ pc' = "phase1"

\* paint_terrain_with_debug / _horizontal_edge / _vertical_edge up to apply.
BeginPaint(t, ti) ==
    LET setup == PaintSetup(t, ColorOf(ti), 1, NoCells, <<>>)
    IN  BeginApply(setup.cells, setup.region, SeedOf(t))

\* ------------------------------------------------------------------------
\* Phase 1: build constraints
\* ------------------------------------------------------------------------
\* (y as u32 * width + x as u32) as usize, without a bounds check: the u32
\* value is hi * 2^32 + lo with lo small; overflow is an outcome of the build.
PhaseOneIndex(c) ==
    LET x  == c[1]
        y  == c[2]
        hp == IF y < 0 /\ W >= 1 THEN 1 ELSE 0
        hx == IF x < 0 THEN 1 ELSE 0
        hi == hp + hx
        lo == y * W + x
        mul_overflow == y < 0 /\ W >= 2
        add_overflow == hi = 2 \/ (hi = 1 /\ lo >= 0)
    IN  [overflow |-> mul_overflow \/ add_overflow,
         idx      |-> IF lo >= 0 THEN lo ELSE HugeIndex]

\* Mutant of MergePreferences: the colours taken from tiles are forced.
MergeForced(cell, w) ==
    [desired |-> [k \in 1 .. 8 |-> IF w[k] # 0 THEN w[k] ELSE cell.desired[k]],
     mask    |-> [k \in 1 .. 8 |-> cell.mask[k] \/ w[k] # 0]]

\* Colours written as soft preferences: only at positions that are not masked.
MergePreferences(cell, w) ==
    [desired |-> [k \in 1 .. 8 |->
                     IF ~cell.mask[k] /\ w[k] # 0 THEN w[k] ELSE cell.desired[k]],
     mask    |-> cell.mask]

\* Mutant of PhaseOneCells: the cell's own tile is merged after the surroundings.
PhaseOneOwnLast(t, g, cs, c) ==
    LET tile == GetTile(g, PhaseOneIndex(c).idx)
        c1   == PutCell(cs, c, MergePreferences(GetCell(cs, c),
                                                wang_id_from_surroundings(t, g, c)))
    IN  IF tile # NoTile /\ has_tile_terrain(t, tile)
        THEN PutCell(c1, c, MergePreferences(GetCell(c1, c), TileWang(t, tile)))
        ELSE c1

\* The body of the Phase 1 loop for one region coordinate.
PhaseOneCells(t, g, cs, c) ==
    LET tile == GetTile(g, PhaseOneIndex(c).idx)
        c1   == IF tile # NoTile /\ has_tile_terrain(t, tile)
                THEN PutCell(cs, c, MergePreferences(GetCell(cs, c), TileWang(t, tile)))
                ELSE cs
    IN  PutCell(c1, c, MergePreferences(GetCell(c1, c),
                                        wang_id_from_surroundings(t, g, c)))

InBoundsNeighbors(c) == {Neighbor(c, i) : i \in Positions} \cap GridCoords

\* An overflowing index computation panics in a build with overflow checks
\* and wraps in one without: both outcomes are steps of the model.
Phase1Step ==
    /\ UNCHANGED <<call, ret>>
    /\ pc = "phase1"
    /\ ri <= Len(region)
    /\ LET c == region[ri]
       IN  \/ /\ PhaseOneIndex(c).overflow
              /\ pc' = "panicked"
              /\ touched' = touched \cup {c}
              /\ UNCHANGED <<cells, ri>>
           \/ /\ cells' = PhaseOneCells(ts, Buf, cells, c)
              /\ touched' = touched \cup {c} \cup InBoundsNeighbors(c)
              /\ ri' = ri + 1
              /\ pc' = pc
    /\ UNCHANGED <<ts, tiles, preview_tiles, original, result, op,
                   stage, targets, tix, terrain_index, region, corrections,
                   corrections_enabled, correction_list, seed, rng_pos, streams,
                   tiles0, installed, placed, corrected, prev_out>>

Phase1Done ==
    /\ UNCHANGED <<call, ret>>
    /\ pc = "phase1"
    /\ ri > Len(region)
    /\ pc' = "phase2"
    /\ ri' = 1
    /\ corrections_enabled' = TRUE
    /\ UNCHANGED <<ts, tiles, preview_tiles, original, result, op,
                   stage, targets, tix, terrain_index, region, cells, corrections,
                   correction_list, seed, rng_pos, streams, tiles0, installed,
                   placed, corrected, touched, prev_out>>

\* ------------------------------------------------------------------------
\* The generator
\* ------------------------------------------------------------------------
\* The values the next draw can take: the recorded one when this seed's
\* generator has already produced it, any level otherwise.
DrawSet(cands) ==
    IF ~NeedsDraw(cands) THEN {0}
    ELSE IF rng_pos < Len(streams[seed]) THEN {streams[seed][rng_pos + 1]}
    ELSE 0 .. RngLevels

RngAdvance(cands, k) ==
    IF NeedsDraw(cands)
    THEN /\ rng_pos' = rng_pos + 1
         /\ streams' = IF rng_pos < Len(streams[seed]) THEN streams
                       ELSE [streams EXCEPT ![seed] = Append(@, k)]
    ELSE UNCHANGED <<rng_pos, streams>>

\* ------------------------------------------------------------------------
\* Phase 2: place and propagate
\* ------------------------------------------------------------------------
\* The propagation loop over the 8 directions, from direction d on.
RECURSIVE Propagate(_, _, _, _, _, _, _, _, _)
Propagate(t, g, rset, enabled, c, chosen_wang, d, cs, corr) ==
    IF d > 7 THEN [cells |-> cs, corrections |-> corr]
    ELSE LET n == Neighbor(c, d)
         IN  IF ~InBounds(n) \/ TileAt(g, n) = NoTile
             THEN Propagate(t, g, rset, enabled, c, chosen_wang, d + 1, cs, corr)
             ELSE LET cs2 == PutCell(cs, n, update_adjacent(GetCell(cs, n), chosen_wang, d))
                      enq == /\ enabled
                             /\ n \notin rset
                             /\ has_tile_terrain(t, TileAt(g, n))
                             /\ cell_violates_constraints(cs2[n], TileWang(t, TileAt(g, n)))
                             /\ ~SeqContains(corr, n)
                  IN  Propagate(t, g, rset, enabled, c, chosen_wang, d + 1, cs2,
                                IF enq THEN Append(corr, n) ELSE corr)

\* Mutant of PlaceAndPropagate: the Option is stored as it is, so a failed
\* selection empties the cell.
PlaceOrClear(t, g, cs, corr, rset, enabled, c, chosen) ==
    LET g2 == [g EXCEPT ![Idx(c)] = chosen]
    IN  IF chosen = NoTile
        THEN [tiles |-> g2, cells |-> cs, corrections |-> corr]
        ELSE LET pr == Propagate(t, g2, rset, enabled, c, TileWang(t, chosen), 0, cs, corr)
             IN  [tiles |-> g2, cells |-> pr.cells, corrections |-> pr.corrections]

\* The body of the Phase 2 loop for an in-bounds coordinate, once
\* find_best_match has answered `chosen`.
PlaceAndPropagate(t, g, cs, corr, rset, enabled, c, chosen) ==
    IF chosen = NoTile
    THEN [tiles |-> g, cells |-> cs, corrections |-> corr]
    ELSE LET g2 == [g EXCEPT ![Idx(c)] = chosen]
             pr == Propagate(t, g2, rset, enabled, c, TileWang(t, chosen), 0, cs, corr)
         IN  [tiles |-> g2, cells |-> pr.cells, corrections |-> pr.corrections]

Phase2Step ==
    /\ UNCHANGED <<call, ret>>
    /\ pc = "phase2"
    /\ ri <= Len(region)
    /\ LET c == region[ri]
       IN  IF ~InBounds(c)
           THEN /\ UNCHANGED <<tiles, preview_tiles, cells, corrections, rng_pos,
                               streams, placed, touched>>
           ELSE LET cands == Candidates(ts, GetCell(cells, c))
                IN  \E k \in DrawSet(cands) :
                        LET chosen == random_pick(cands, k)
                            r == PlaceAndPropagate(ts, Buf, cells, corrections,
                                     SeqSet(region), corrections_enabled, c, chosen)
                        IN  /\ RngAdvance(cands, k)
                            /\ Store(r.tiles)
                            /\ cells' = r.cells
                            /\ corrections' = r.corrections
                            /\ placed' = IF chosen = NoTile THEN placed
                                         ELSE placed \cup {c}
                            /\ touched' = IF chosen = NoTile THEN touched
                                          ELSE touched \cup {c} \cup InBoundsNeighbors(c)
    /\ ri' = ri + 1
    /\ UNCHANGED <<ts, original, result, op, pc, stage, targets,
                   tix, terrain_index, region, corrections_enabled, correction_list,
                   seed, tiles0, installed, corrected, prev_out>>

Phase2Done ==
    /\ UNCHANGED <<call, ret>>
    /\ pc = "phase2"
    /\ ri > Len(region)
    /\ pc' = "phase3"
    /\ ri' = 1
    /\ correction_list' = corrections
    /\ corrections' = <<>>
    /\ UNCHANGED <<ts, tiles, preview_tiles, original, result, op,
                   stage, targets, tix, terrain_index, region, cells,
                   corrections_enabled, seed, rng_pos, streams, tiles0, installed,
                   placed, corrected, touched, prev_out>>

\* ------------------------------------------------------------------------
\* Phase 3: single-pass corrections
\* ------------------------------------------------------------------------
\* A queued coordinate is re-evaluated: outside the region, in bounds, holding
\* a tile with terrain data, with a cell record that the tile violates.
NeedsCorrection(t, g, cs, rset, c) ==
    /\ c \notin rset
    /\ InBounds(c)
    /\ TileAt(g, c) # NoTile
    /\ has_tile_terrain(t, TileAt(g, c))
    /\ c \in DOMAIN cs
    /\ cell_violates_constraints(cs[c], TileWang(t, TileAt(g, c)))

\* Mutant of Correct: the fix is also written over the first region cell.
CorrectSpread(g, c, fix) ==
    IF fix = NoTile THEN g
    ELSE [k \in DOMAIN g |->
             IF k = Idx(c) \/ (region # <<>> /\ k = Idx(region[1]))
             THEN fix ELSE g[k]]

\* Mutant of Correct: the Option is stored as it is, so a failed selection
\* empties the cell.
CorrectOrClear(g, c, fix) == [g EXCEPT ![Idx(c)] = fix]

\* The grid after the Phase 3 body once find_best_match has answered `fix`.
Correct(g, c, fix) == IF fix = NoTile THEN g ELSE [g EXCEPT ![Idx(c)] = fix]

Phase3Step ==
    /\ UNCHANGED <<call, ret>>
    /\ pc = "phase3"
    /\ ri <= Len(correction_list)
    /\ LET c == correction_list[ri]
       IN  IF ~NeedsCorrection(ts, Buf, cells, SeqSet(region), c)
           THEN /\ UNCHANGED <<tiles, preview_tiles, rng_pos, streams, corrected>>
                /\ touched' = IF c \notin SeqSet(region) /\ InBounds(c)
                              THEN touched \cup {c} ELSE touched
           ELSE LET cands == Candidates(ts, cells[c])
                IN  \E k \in DrawSet(cands) :
                        LET fix == random_pick(cands, k)
                        IN  /\ RngAdvance(cands, k)
                            /\ Store(Correct(Buf, c, fix))
                            /\ corrected' = IF fix = NoTile THEN corrected
                                            ELSE corrected \cup {c}
                            /\ touched' = touched \cup {c}
    /\ ri' = ri + 1
    /\ UNCHANGED <<ts, original, result, op, pc, stage, targets,
                   tix, terrain_index, region, cells, corrections,
                   corrections_enabled, correction_list, seed, tiles0, installed,
                   placed, prev_out>>

Phase3Done ==
    /\ UNCHANGED <<call, ret>>
    /\ pc = "phase3"
    /\ ri > Len(correction_list)
    /\ pc' = "applied"
    /\ UNCHANGED <<ts, tiles, preview_tiles, original, result, op,
                   stage, targets, tix, terrain_index, region, ri, cells,
                   corrections, corrections_enabled, correction_list, seed,
                   rng_pos, streams, tiles0, installed, placed, corrected,
                   touched, prev_out>>

\* ------------------------------------------------------------------------
\* Calls
\* ------------------------------------------------------------------------
\* paint_terrain_at_target, called with the arguments of the preview that has
\* just returned (the editor previews a target, then paints it).
PaintAtTarget(t, ti) ==
    /\ UNCHANGED <<call, ret>>
    /\ pc = "idle"
    /\ stage = 1
    /\ op = "preview"
    /\ targets = <<t>>
    /\ terrain_index = ti
    /\ op' = "paint"
    /\ targets' = <<t>>
    /\ tix' = 1
    /\ terrain_index' = ti
    /\ tiles0' = tiles
    /\ BeginPaint(t, ti)
    /\ UNCHANGED <<ts, tiles, preview_tiles, original, result,
                   stage, prev_out>>

\* original: the snapshot of the affected cells.
Snapshot(g, cs) == [c \in cs |-> TileAt(g, c)]

\* tiles.to_vec()
ToVec(g) == g

\* preview_terrain_at_target
PreviewAtTarget(t, ti) ==
    /\ UNCHANGED <<call, ret>>
    /\ pc = "idle"
    /\ stage = 0
    /\ t \in TargetsOf(ts.set_type)
    /\ op' = "preview"
    /\ targets' = <<t>>
    /\ terrain_index' = ti
    /\ result' = {}
    /\ tiles0' = tiles
    /\ IF get_affected_region(t) = <<>>
       THEN /\ stage' = stage + 1
            /\ tix' = 0
            /\ UNCHANGED <<preview_tiles, original, pc, region, ri, cells,
                           corrections, corrections_enabled, correction_list,
                           seed, rng_pos, streams, installed, placed, corrected,
                           touched>>
       ELSE /\ original' = Snapshot(tiles, SeqSet(get_affected_region(t)))
            /\ preview_tiles' = ToVec(tiles)
            /\ tix' = 1
            /\ stage' = stage
            /\ BeginPaint(t, ti)
    /\ UNCHANGED <<ts, tiles, prev_out>>

\* Target lists of preview_terrain_at_targets.
ManyTargets == {Corner(1, 1), Corner(W, 1), VerticalEdge(W, 0), VerticalEdge(1, 0)}

TargetLists ==
    {<<>>} \cup {<<t>> : t \in ManyTargets}
           \cup {<<t, u>> : t \in ManyTargets, u \in ManyTargets}

AllAffected(tl) == UNION {SeqSet(get_affected_region(tl[j])) : j \in 1 .. Len(tl)}

\* preview_terrain_at_targets
PreviewAtTargets(tl, ti) ==
    /\ UNCHANGED <<call, ret>>
    /\ pc = "idle"
    /\ stage = 0
    /\ \A j \in 1 .. Len(tl) : tl[j] \in TargetsOf(ts.set_type)
    /\ op' = "preview_many"
    /\ targets' = tl
    /\ terrain_index' = ti
    /\ result' = {}
    /\ tiles0' = tiles
    /\ IF tl = <<>> \/ AllAffected(tl) = {}
       THEN /\ stage' = stage + 1
            /\ tix' = 0
            /\ UNCHANGED <<preview_tiles, original, pc, region, ri, cells,
                           corrections, corrections_enabled, correction_list,
                           seed, rng_pos, streams, installed, placed, corrected,
                           touched>>
       ELSE /\ original' = Snapshot(tiles, AllAffected(tl))
            /\ preview_tiles' = ToVec(tiles)
            /\ tix' = 1
            /\ stage' = stage
            /\ BeginPaint(tl[1], ti)
    /\ UNCHANGED <<ts, tiles, prev_out>>

\* The next target of preview_terrain_at_targets, on the same copy.
PreviewNext ==
    /\ UNCHANGED <<call, ret>>
    /\ pc = "applied"
    /\ OnCopy(op)
    /\ tix < Len(targets)
    /\ tix' = tix + 1
    /\ BeginPaint(targets[tix + 1], terrain_index)
    /\ UNCHANGED <<ts, tiles, preview_tiles, original, result, op,
                   stage, targets, terrain_index, tiles0, prev_out>>

\* The changed tiles a preview reports: affected cells whose new tile is
\* Some and differs from the snapshot.
ChangedTiles(orig, g) ==
    {<<c, TileAt(g, c)>> : c \in {d \in DOMAIN orig :
                                     TileAt(g, d) # orig[d] /\ TileAt(g, d) # NoTile}}

PreviewReturn ==
    /\ UNCHANGED <<call, ret>>
    /\ pc = "applied"
    /\ OnCopy(op)
    /\ tix = Len(targets)
    /\ result' = ChangedTiles(original, preview_tiles)
    /\ prev_out' = preview_tiles
    /\ preview_tiles' = <<>>
    /\ pc' = "idle"
    /\ stage' = stage + 1
    /\ UNCHANGED <<ts, tiles, original, op, targets, tix,
                   terrain_index, region, ri, cells, corrections,
                   corrections_enabled, correction_list, seed, rng_pos, streams,
                   tiles0, installed, placed, corrected, touched>>

\* Coordinates a caller may hand to apply: the grid and one ring around it.
ExtCoords == (-1 .. W) \X (-1 .. H)

ApplyRegions ==
    {<<c>> : c \in ExtCoords} \cup {<<c, d>> : c \in {<<0, 0>>}, d \in ExtCoords}

\* WangFiller::new(terrain_set).apply(tiles, width, height, region)
ApplyRegion(reg) ==
    /\ UNCHANGED <<call, ret>>
    /\ pc = "idle"
    /\ stage = 0
    /\ op' = "apply"
    /\ targets' = <<>>
    /\ tix' = 0
    /\ tiles0' = tiles
    /\ BeginApply(NoCells, reg, <<0, 0>>)
    /\ UNCHANGED <<ts, tiles, preview_tiles, original, result,
                   stage, terrain_index, prev_out>>

\* update_tile_with_neighbors(tiles, width, height, x, y, terrain_set,
\* primary_terrain): nothing out of bounds; otherwise a fresh filler whose cell
\* (x, y) prefers the terrain's colour at all 8 positions, applied to the
\* region of that one cell.
UpdateTileWithNeighbors(c, ti) ==
    /\ UNCHANGED <<call, ret>>
    /\ pc = "idle"
    /\ stage = 0
    /\ op' = "update"
    /\ targets' = <<[kind |-> "Tile", a |-> c[1], b |-> c[2]]>>
    /\ tix' = 0
    /\ terrain_index' = ti
    /\ tiles0' = tiles
    /\ IF ~InBounds(c)
       THEN /\ stage' = stage + 1
            /\ UNCHANGED <<pc, region, ri, cells, corrections, corrections_enabled,
                           correction_list, seed, rng_pos, streams, installed,
                           placed, corrected, touched>>
       ELSE /\ BeginApply(PutCell(NoCells, c,
                                  [desired |-> AllSlots(8, ColorOf(ti)),
                                   mask    |-> NoMask]),
                          <<c>>, <<0, 0>>)
            /\ UNCHANGED stage
    /\ UNCHANGED <<ts, tiles, preview_tiles, original, result, prev_out>>

\* apply has returned to a call that works on the caller's slice.
Return ==
    /\ UNCHANGED <<call, ret>>
    /\ pc = "applied"
    /\ ~OnCopy(op)
    /\ pc' = "idle"
    /\ stage' = stage + 1
    /\ UNCHANGED <<ts, tiles, preview_tiles, original, result, op,
                   targets, tix, terrain_index, region, ri, cells, corrections,
                   corrections_enabled, correction_list, seed, rng_pos, streams,
                   tiles0, installed, placed, corrected, touched, prev_out>>

Next ==
    \/ \E t \in Targets, ti \in TerrainIndices : PaintAtTarget(t, ti)
    \/ \E t \in Targets, ti \in TerrainIndices : PreviewAtTarget(t, ti)
    \/ \E tl \in TargetLists, ti \in TerrainIndices : PreviewAtTargets(tl, ti)
    \/ \E reg \in ApplyRegions : ApplyRegion(reg)
    \/ \E c \in ExtCoords, ti \in TerrainIndices : UpdateTileWithNeighbors(c, ti)
    \/ Phase1Step
    \/ Phase1Done
    \/ Phase2Step
    \/ Phase2Done
    \/ Phase3Step
    \/ Phase3Done
    \/ PreviewNext
    \/ PreviewReturn
    \/ Return

Spec == Init /\ [][Next]_vars

\* ========================================================================
\* Single functions, each applied to inputs drawn at the start
\* ========================================================================
\* Largest number of calls made on one CellInfo.
MaxCalls == 3

\* Positions and colours the calls on a CellInfo use.
CellPositions == {1, 4}

CellColors == {0, 1, 2}

CellCalls == {[fn |-> "cell_info", ops |-> <<>>]}

\* cell.set_constraint_at_index(i, c) on the CellInfo under examination.
SetConstraint(i, c) ==
    /\ call.fn = "cell_info"
    /\ Len(call.ops) < MaxCalls
    /\ ret' = set_constraint_at_index(ret, i, c)
    /\ call' = [call EXCEPT !.ops = Append(@, [kind |-> "constraint", i |-> i, c |-> c])]

\* cell.set_preference_at_index(i, c) on the CellInfo under examination.
SetPreference(i, c) ==
    /\ call.fn = "cell_info"
    /\ Len(call.ops) < MaxCalls
    /\ ret' = set_preference_at_index(ret, i, c)
    /\ call' = [call EXCEPT !.ops = Append(@, [kind |-> "preference", i |-> i, c |-> c])]

\* u32 coordinates below and at the bits the edge seeds set (2^28 and 2^29).
SeedCoords == {0, 1, 2, 268435456, 268435457, 536870912, 805306368}

SeedCalls ==
    {[fn |-> "seed", done |-> FALSE, a |-> a, b |-> b] : a \in SeedCoords, b \in {0, 1, 2}}

\* The seeds the three paint functions derive for the coordinates (a, b).
DeriveSeeds ==
    /\ call.fn = "seed"
    /\ ~call.done
    /\ ret' = [corner     |-> SeedOf(Corner(call.a, call.b)),
               horizontal |-> SeedOf(HorizontalEdge(call.a, call.b)),
               vertical   |-> SeedOf(VerticalEdge(call.a, call.b))]
    /\ call' = [call EXCEPT !.done = TRUE]

\* Terrain indices at both ends of the range of the 8-bit colour.
ColorIndices == {0, 1, 2, 253, 254, 255}

ColorCalls == {[fn |-> "color", done |-> FALSE, n |-> n] : n \in ColorIndices}

\* (terrain_index + 1) as u8, as the paint functions and the conversion of a
\* tile's terrain data compute it.
EncodeColor ==
    /\ call.fn = "color"
    /\ ~call.done
    /\ ret' = ColorOf(call.n)
    /\ call' = [call EXCEPT !.done = TRUE]

\* Cell records and tile colours that differ at one edge (0) and one corner (1).
ScoreCells ==
    {[desired |-> [k \in 1 .. 8 |-> IF k = 1 THEN d0 ELSE IF k = 2 THEN d1 ELSE 0],
      mask    |-> [k \in 1 .. 8 |-> IF k = 1 THEN m0 ELSE IF k = 2 THEN m1 ELSE FALSE]] :
        d0 \in {0, 1, 2}, d1 \in {0, 1, 2}, m0 \in BOOLEAN, m1 \in BOOLEAN}

ScoreWangs ==
    {[k \in 1 .. 8 |-> IF k = 1 THEN c0 ELSE IF k = 2 THEN c1 ELSE 0] :
        c0 \in {0, 1, 2}, c1 \in {0, 1, 2}}

ScoreCalls ==
    {[fn |-> "score_tile", done |-> FALSE, cell |-> cell, wang |-> w] :
        cell \in ScoreCells, w \in ScoreWangs}

\* filler.score_tile(&cell, &tile_wang)
ScoreTile ==
    /\ call.fn = "score_tile"
    /\ ~call.done
    /\ ret' = score_tile(ts, call.cell, call.wang)
    /\ call' = [call EXCEPT !.done = TRUE]

\* find_best_match on a cell record, with the draw random_pick would make.
MatchCalls ==
    {[fn |-> "find_best_match", done |-> FALSE, cell |-> cell, k |-> k] :
        cell \in ScoreCells, k \in 0 .. RngLevels}

\* filler.find_best_match(&cell)
FindBestMatch ==
    /\ call.fn = "find_best_match"
    /\ ~call.done
    /\ ret' = find_best_match(ts, call.cell, call.k)
    /\ call' = [call EXCEPT !.done = TRUE]
    /\ IF NeedsDraw(Candidates(ts, call.cell))
       THEN /\ rng_pos' = rng_pos + 1
            /\ streams' = [sd \in DOMAIN streams \cup {seed} |->
                               IF sd = seed
                               THEN Append(IF sd \in DOMAIN streams
                                           THEN streams[sd] ELSE <<>>, call.k)
                               ELSE streams[sd]]
       ELSE UNCHANGED <<rng_pos, streams>>
    /\ UNCHANGED <<ts, tiles, preview_tiles, original, result, op, pc, stage,
                   targets, tix, terrain_index, region, ri, cells, corrections,
                   corrections_enabled, correction_list, seed, tiles0,
                   installed, placed, corrected, touched, prev_out>>

\* World coordinates from 2 tiles left of the origin to 2 tiles right of it
\* (for tile size 1), in 64ths and in units of 2^-25.
MaxWorld == 2

WorldOffsets == {0, 8, 21, 22, 31, 32, 33, 42, 43, 56}

\* Two coordinates just below 0 and just above -1.0: halved by tile size 2,
\* their negative fraction plus 1.0 is not an f32 and is rounded.
WorldFine == {0 - 2, 0 - 33554430}

WorldCoords ==
    {(t * 64 + o) * (FixedOne \div 64) : t \in (0 - MaxWorld) .. (MaxWorld - 1),
                                          o \in WorldOffsets}
    \cup WorldFine

TileSizes == {1, 2}

TargetCalls ==
    {[fn |-> "get_paint_target", done |-> FALSE,
      world_x |-> wx, world_y |-> wy, tile_size |-> sz] :
        wx \in WorldCoords, wy \in WorldCoords, sz \in TileSizes}

\* get_paint_target(world_x, world_y, tile_size, terrain_set.set_type)
GetPaintTarget ==
    /\ call.fn = "get_paint_target"
    /\ ~call.done
    /\ ret' = get_paint_target(call.world_x, call.world_y, call.tile_size, ts.set_type)
    /\ call' = [call EXCEPT !.done = TRUE]

\* Terrain data of 4 or of 8 slots, each slot a terrain index or absent.
SlotData ==
    [1 .. 4 -> {NoTerrain, 0, 1}]
    \cup {d \in [1 .. 8 -> {NoTerrain, 0, 1}] : \A k \in 5 .. 8 : d[k] # 0}

WangCalls ==
    {[fn |-> "tile_terrain_to_wang_id", done |-> FALSE, data |-> d] : d \in SlotData}

\* filler.tile_terrain_to_wang_id(&data)
TileTerrainToWangId ==
    /\ call.fn = "tile_terrain_to_wang_id"
    /\ ~call.done
    /\ ret' = tile_terrain_to_wang_id(ts, call.data)
    /\ call' = [call EXCEPT !.done = TRUE]

UnitCalls ==
    CellCalls \cup SeedCalls \cup ColorCalls \cup ScoreCalls \cup MatchCalls
    \cup TargetCalls \cup WangCalls

\* The terrain sets a function is examined with.
UnitSets(cl) ==
    CASE cl.fn = "score_tile"      -> {MixedSet, CornerSet, EdgeSet}
      [] cl.fn = "find_best_match" -> {MixedSet, CornerSet, EdgeSet} \cup FineSets
      [] cl.fn = "get_paint_target" -> {MixedSet, CornerSet, EdgeSet}
      [] cl.fn = "tile_terrain_to_wang_id" -> {MixedSet, CornerSet, EdgeSet}
      [] OTHER                     -> {MixedSet}

\* What the examined function starts from: CellInfo::new() for a CellInfo.
UnitStart(cl) == IF cl.fn = "cell_info" THEN CellInfoDefault ELSE Pending

\* No paint call runs.
Quiet ==
    /\ tiles = EmptyGrid /\ tiles0 = EmptyGrid
    /\ preview_tiles = <<>> /\ original = <<>> /\ result = {}
    /\ op = "none" /\ pc = "idle" /\ stage = 0
    /\ targets = <<>> /\ tix = 0 /\ terrain_index = 0
    /\ region = <<>> /\ ri = 0
    /\ cells = NoCells /\ installed = NoCells
    /\ corrections = <<>> /\ corrections_enabled = FALSE /\ correction_list = <<>>
    /\ seed = <<0, 0>> /\ rng_pos = 0 /\ streams = <<>>
    /\ placed = {} /\ corrected = {} /\ touched = {} /\ prev_out = <<>>

paintVars ==
    <<ts, tiles, preview_tiles, original, result, op, pc, stage,
      targets, tix, terrain_index, region, ri, cells, corrections,
      corrections_enabled, correction_list, seed, rng_pos, streams, tiles0,
      installed, placed, corrected, touched, prev_out>>

InitUnit ==
    /\ call \in UnitCalls
    /\ ret = UnitStart(call)
    /\ ts \in UnitSets(call)
    /\ Quiet

NextUnit ==
    \/ \E i \in CellPositions, c \in CellColors :
           SetConstraint(i, c) /\ UNCHANGED paintVars
    \/ \E i \in CellPositions, c \in CellColors :
           SetPreference(i, c) /\ UNCHANGED paintVars
    \/ DeriveSeeds /\ UNCHANGED paintVars
    \/ EncodeColor /\ UNCHANGED paintVars
    \/ ScoreTile /\ UNCHANGED paintVars
    \/ FindBestMatch
    \/ GetPaintTarget /\ UNCHANGED paintVars
    \/ TileTerrainToWangId /\ UNCHANGED paintVars

SpecUnit == InitUnit /\ [][NextUnit]_vars

\* ========================================================================
\* Properties
\* ========================================================================
\* The WangId of the tile the fill's buffer holds at c.
WangAt(c) == TileWang(ts, TileAt(Buf, c))

\* C1: when apply has returned, every cell placed in Phase 2 or corrected in
\* Phase 3 holds a tile that equals its final constraint record at every
\* hard-masked position, or no tile of the terrain set passes scoring against
\* that record.
C1_FinalRecordSatisfied ==
    pc = "applied" =>
        \A c \in placed \cup corrected :
            \/ \A i \in Positions :
                   GetCell(cells, c).mask[i + 1] =>
                       color_at_index(GetCell(cells, c).desired, i)
                           = color_at_index(WangAt(c), i)
            \/ Candidates(ts, GetCell(cells, c)) = <<>>

\* C2: the pairs a preview returns are all the cells that the paint with the
\* same arguments on the same grid changes, with their new tiles.
C2_PreviewEqualsPaintDiff ==
    (op = "paint" /\ pc = "idle" /\ stage = 2) =>
        result = {<<c, TileAt(tiles, c)>> :
                     c \in {d \in GridCoords : TileAt(tiles, d) # TileAt(tiles0, d)}}

\* C3: after a paint, two 8-adjacent cells that both received a tile during
\* the paint agree on the facing positions: the tile at c has at position i
\* the colour the neighbour in direction i has at opposite(i).
C3_AdjacentTilesMatch ==
    (op = "paint" /\ pc = "applied") =>
        \A c \in placed \cup corrected : \A i \in Positions :
            Neighbor(c, i) \in placed \cup corrected =>
                color_at_index(WangAt(c), i)
                    = color_at_index(WangAt(Neighbor(c, i)), opposite_index(i))

\* C4: two runs of paint_terrain_at_target from identical grid contents with
\* the same terrain set, target and terrain index (the run inside the preview
\* and the paint that follows it) produce identical grids.
C4_Determinism ==
    (op = "paint" /\ pc = "applied" /\ prev_out # <<>>) => tiles = prev_out

\* C4 witness: the second run has consumed a draw and changed the grid.
C4_Witness ==
    /\ op = "paint" /\ pc = "applied" /\ prev_out # <<>>
    /\ rng_pos > 0
    /\ tiles # tiles0
    /\ tiles = prev_out

\* Positions of the other kind than the target's: the edges for a Corner
\* target, the corners for an edge target.
OtherKind(kind) == IF kind = "Corner" THEN {0, 2, 4, 6} ELSE {1, 3, 5, 7}

PaintOp == op \in {"paint", "preview", "preview_many"} /\ tix >= 1

\* C5 (as stated): in Mixed mode, at the end of a paint of a Corner target no
\* edge position of an affected cell has changed its hard-mask bit (all are
\* clear, as before the paint), and symmetrically for edge targets and corner
\* positions.
C5_OtherKindMasksUnchanged ==
    (PaintOp /\ ts.set_type = "Mixed" /\ pc = "applied") =>
        \A c \in SeqSet(region) : \A i \in OtherKind(targets[tix].kind) :
            ~GetCell(cells, c).mask[i + 1]

\* C5 (amended): in Mixed mode, throughout a paint, a hard-mask bit of the
\* other kind on an affected cell is set at position i only when Phase 2 has
\* placed a tile in the neighbour in direction i; the constraints the paint
\* installs and Phase 1 leave all such bits clear.
C5_OtherKindMasksOnlyByPropagation ==
    (PaintOp /\ ts.set_type = "Mixed") =>
        \A c \in SeqSet(region) : \A i \in OtherKind(targets[tix].kind) :
            GetCell(cells, c).mask[i + 1] => Neighbor(c, i) \in placed

\* C5 witness: a Corner paint in Mixed mode has returned and propagation has
\* masked an edge position of an affected cell.
C5_Witness ==
    /\ PaintOp /\ ts.set_type = "Mixed" /\ pc = "applied"
    /\ targets[tix].kind = "Corner"
    /\ \E c \in SeqSet(region) : \E i \in {0, 2, 4, 6} :
           GetCell(cells, c).mask[i + 1] /\ Neighbor(c, i) \in placed

\* C6: a paint never computes a grid index for a coordinate outside the grid:
\* out-of-range affected cells are not in the region, and no step panics.
C6_PaintStaysInGrid ==
    PaintOp => /\ SeqSet(region) \subseteq GridCoords
               /\ touched \subseteq GridCoords
               /\ pc # "panicked"

\* C6 witness: a paint whose target has affected cells outside the grid has
\* returned after placing a tile.
C6_Witness ==
    /\ PaintOp /\ pc = "applied"
    /\ \E k \in 1 .. Len(Affected(targets[tix])) :
           ~InBounds(<<Affected(targets[tix])[k][1], Affected(targets[tix])[k][2]>>)
    /\ placed # {}
    /\ touched # {}

\* C7: apply skips a region coordinate outside the grid in every phase: no
\* grid index is computed for it and nothing panics.
C7_OutOfBoundsSkipped ==
    op = "apply" => touched \subseteq GridCoords /\ pc # "panicked"

\* C8: Phase 1 sets no hard-mask bit and writes no colour at a masked
\* position: until the first Phase 2 step every record has the mask the caller
\* installed and the installed colour at every masked position.
C8_PhaseOneKeepsMasks ==
    (pc = "phase1" \/ (pc = "phase2" /\ ri = 1)) =>
        \A c \in DOMAIN cells :
            /\ cells[c].mask = GetCell(installed, c).mask
            /\ \A i \in Positions :
                   cells[c].mask[i + 1] =>
                       color_at_index(cells[c].desired, i)
                           = color_at_index(GetCell(installed, c).desired, i)

\* C8 witness: Phase 1 has ended on a region cell that holds a tile with
\* terrain, carries an installed mask and received preferences.
C8_Witness ==
    /\ pc = "phase2" /\ ri = 1
    /\ \E c \in SeqSet(region) :
           /\ has_tile_terrain(ts, TileAt(Buf, c))
           /\ c \in DOMAIN installed
           /\ \E i \in Positions : installed[c].mask[i + 1]
           /\ cells[c].desired # installed[c].desired

\* C9: preview_terrain_at_target and preview_terrain_at_targets leave the
\* caller's grid unchanged.
C9_PreviewPurity ==
    op \in {"preview", "preview_many"} => tiles = tiles0

\* C9 witness: a preview of two targets has returned changed tiles.
C9_Witness ==
    /\ op = "preview_many" /\ pc = "idle" /\ stage = 1
    /\ Len(targets) = 2
    /\ result # {}
    /\ prev_out # tiles

\* Selection returns none for the coordinate the phase is about to process.
Phase2NoMatch ==
    /\ pc = "phase2" /\ ri <= Len(region)
    /\ InBounds(region[ri])
    /\ Candidates(ts, GetCell(cells, region[ri])) = <<>>

Phase3NoMatch ==
    /\ pc = "phase3" /\ ri <= Len(correction_list)
    /\ NeedsCorrection(ts, Buf, cells, SeqSet(region), correction_list[ri])
    /\ Candidates(ts, cells[correction_list[ri]]) = <<>>

\* C10: a step of Phase 2 or Phase 3 whose selection returns none changes
\* neither the grid nor any constraint record nor the correction queue, and
\* moves on to the next coordinate.
C10_NoMatchLeavesCell ==
    [][(Phase2NoMatch \/ Phase3NoMatch) =>
          /\ tiles' = tiles
          /\ preview_tiles' = preview_tiles
          /\ cells' = cells
          /\ corrections' = corrections
          /\ ri' = ri + 1
          /\ pc' = pc]_vars

\* C10 witness: Phase 2 has just passed a cell that holds a tile and for
\* which selection returned none.
C10_Witness ==
    /\ pc = "phase2" /\ ri > 1
    /\ InBounds(region[ri - 1])
    /\ region[ri - 1] \notin placed
    /\ TileAt(Buf, region[ri - 1]) # NoTile
    /\ Candidates(ts, GetCell(cells, region[ri - 1])) = <<>>

\* The table of the orchestration as the claim states it: <<x, y, position>>.
TableOf(t) ==
    CASE t.kind = "Corner" ->
             {<<t.a - 1, t.b - 1, 1>>, <<t.a, t.b - 1, 7>>,
              <<t.a - 1, t.b, 3>>, <<t.a, t.b, 5>>}
      [] t.kind = "HorizontalEdge" -> {<<t.a, t.b - 1, 0>>, <<t.a, t.b, 4>>}
      [] t.kind = "VerticalEdge"   -> {<<t.a - 1, t.b, 2>>, <<t.a, t.b, 6>>}

\* C11: what a paint hands to the fill is exactly the table: the region lists
\* the in-bounds cells of the table once each, the installed records are those
\* cells', a position is masked iff the table names it for the cell, and a
\* masked position wants the colour terrain_index + 1.
C11_OrchestrationTable ==
    PaintOp =>
        LET t     == targets[tix]
            inTab == {e \in TableOf(t) : <<e[1], e[2]>> \in GridCoords}
        IN  /\ SeqSet(region) = {<<e[1], e[2]>> : e \in inTab}
            /\ Len(region) = Cardinality(SeqSet(region))
            /\ DOMAIN installed = SeqSet(region)
            /\ \A c \in DOMAIN installed : \A i \in Positions :
                   /\ installed[c].mask[i + 1] <=> <<c[1], c[2], i>> \in inTab
                   /\ installed[c].mask[i + 1] =>
                          color_at_index(installed[c].desired, i) = terrain_index + 1

\* C11 witness: the fill of a Corner paint with its four cells inside the grid
\* is about to start.
C11_Witness ==
    /\ PaintOp /\ pc = "phase1" /\ ri = 1
    /\ targets[tix].kind = "Corner"
    /\ Len(region) = 4
    /\ Cardinality(DOMAIN installed) = 4

\* The four cells that touch corner (cx, cy).
AroundCorner(cx, cy) ==
    {<<cx - 1, cy - 1>>, <<cx, cy - 1>>, <<cx - 1, cy>>, <<cx, cy>>}

\* C12: on an all-empty grid, with the Mixed set whose only tile has colour 2
\* everywhere, painting terrain index 1 at a Corner target ends with that tile
\* in exactly the in-bounds cells that touch the corner and every other cell
\* empty.
C12_UniformCornerPaint ==
    (/\ op = "paint" /\ pc = "applied"
     /\ ts = UniformSet /\ tiles0 = EmptyGrid
     /\ targets[1].kind = "Corner" /\ terrain_index = 1) =>
        \A c \in GridCoords :
            TileAt(tiles, c) =
                IF c \in AroundCorner(targets[1].a, targets[1].b) THEN 30 ELSE NoTile

\* C12 witness: such a paint at Corner(1, 1) has returned and the four cells
\* around the corner hold the tile.
C12_Witness ==
    /\ op = "paint" /\ pc = "applied"
    /\ ts = UniformSet /\ tiles0 = EmptyGrid
    /\ targets = <<Corner(1, 1)>> /\ terrain_index = 1
    /\ \A c \in AroundCorner(1, 1) : TileAt(tiles, c) = 30
    /\ \E c \in GridCoords : TileAt(tiles, c) = NoTile

\* A HorizontalEdge paint in Edge mode has returned, and the two cells of the
\* edge are inside the grid and were empty before it.
EdgePaintDone ==
    /\ op = "paint" /\ pc = "applied"
    /\ ts.set_type = "Edge"
    /\ targets[1].kind = "HorizontalEdge"
    /\ <<targets[1].a, targets[1].b - 1>> \in GridCoords
    /\ <<targets[1].a, targets[1].b>> \in GridCoords
    /\ TileAt(tiles0, <<targets[1].a, targets[1].b - 1>>) = NoTile
    /\ TileAt(tiles0, <<targets[1].a, targets[1].b>>) = NoTile

\* C13: after such a paint with terrain index t, a tile placed in the lower
\* cell has Top colour t + 1 and a tile placed in the upper cell has Bottom
\* colour t + 1; with the set of the two uniform tiles and t = 0 both cells
\* hold the tile of colour 1, whatever the neighbours prefer.
C13_EdgeHardSelection ==
    EdgePaintDone =>
        LET lower == <<targets[1].a, targets[1].b - 1>>
            upper == <<targets[1].a, targets[1].b>>
        IN  /\ TileAt(tiles, lower) # NoTile =>
                   color_at_index(TileWang(ts, TileAt(tiles, lower)), 0) = terrain_index + 1
            /\ TileAt(tiles, upper) # NoTile =>
                   color_at_index(TileWang(ts, TileAt(tiles, upper)), 4) = terrain_index + 1
            /\ (ts = TwoEdgeSet /\ terrain_index = 0) =>
                   TileAt(tiles, lower) = 40 /\ TileAt(tiles, upper) = 40

\* C13 witness: with the two uniform tiles, terrain index 0 was painted next
\* to a tile of colour 2 and both cells of the edge hold the tile of colour 1.
C13_Witness ==
    /\ EdgePaintDone
    /\ ts = TwoEdgeSet /\ terrain_index = 0
    /\ \E i \in {2, 6} :
           TileAt(tiles0, Neighbor(<<targets[1].a, targets[1].b - 1>>, i)) = 41
    /\ TileAt(tiles, <<targets[1].a, targets[1].b - 1>>) = 40
    /\ TileAt(tiles, <<targets[1].a, targets[1].b>>) = 40

\* The calls so far that were set_constraint on position i.
ConstraintCalls(i) ==
    {j \in 1 .. Len(call.ops) : call.ops[j].kind = "constraint" /\ call.ops[j].i = i}

\* C14: after any sequence of set_constraint and set_preference calls on one
\* CellInfo, a position is masked iff set_constraint was called on it, and its
\* desired colour is then the colour of the last set_constraint on it, whatever
\* preferences were set before, between or after.
C14_ConstraintOverPreference ==
    call.fn = "cell_info" =>
        \A i \in Positions :
            LET cc == ConstraintCalls(i)
            IN  /\ ret.mask[i + 1] <=> cc # {}
                /\ cc # {} =>
                       color_at_index(ret.desired, i)
                           = call.ops[CHOOSE j \in cc : \A m \in cc : m <= j].c

\* C14 witness: a preference, a constraint and a preference of another colour
\* were set in this order on one position, which keeps the constraint's colour.
C14_Witness ==
    /\ call.fn = "cell_info" /\ Len(call.ops) = 3
    /\ call.ops[1].kind = "preference"
    /\ call.ops[2].kind = "constraint"
    /\ call.ops[3].kind = "preference"
    /\ call.ops[1].i = call.ops[2].i /\ call.ops[3].i = call.ops[2].i
    /\ call.ops[3].c # call.ops[2].c
    /\ call.ops[1].c # call.ops[2].c
    /\ color_at_index(ret.desired, call.ops[2].i) = call.ops[2].c

\* C15: for all coordinates (a, b) the seeds derived for Corner{a, b},
\* HorizontalEdge{a, b} and VerticalEdge{a, b} are pairwise distinct.
C15_SeedsDistinct ==
    (call.fn = "seed" /\ call.done) =>
        /\ ret.corner # ret.horizontal
        /\ ret.corner # ret.vertical
        /\ ret.horizontal # ret.vertical

\* C16: the colour computed for terrain index N is N + 1 and is never 0.
C16_ColourIsIndexPlusOne ==
    (call.fn = "color" /\ call.done) => ret = call.n + 1 /\ ret # 0

\* The active positions of a mode as the claim lists them.
ActiveSet(set_type) ==
    CASE set_type = "Corner" -> {1, 3, 5, 7}
      [] set_type = "Edge"   -> {0, 2, 4, 6}
      [] set_type = "Mixed"  -> 0 .. 7

\* The penalty the rule charges at position i.
PenaltyAt(cell, w, i) ==
    LET want == color_at_index(cell.desired, i)
        have == color_at_index(w, i)
    IN  IF ~cell.mask[i + 1] /\ want # 0 /\ want # have
        THEN IF have = 0 THEN Unit ELSE transition_penalty(ts, want - 1, have - 1)
        ELSE 0

\* The penalties of the positions of act, added in f32 in ascending order
\* of position.
RECURSIVE PenaltyOver(_, _, _)
PenaltyOver(cell, w, act) ==
    IF act = {} THEN 0
    ELSE LET i == CHOOSE j \in act : \A m \in act : m <= j
         IN  PenaltyAdd(PenaltyOver(cell, w, act \ {i}), PenaltyAt(cell, w, i))

\* C17: score_tile rejects iff an active position is masked with a desired
\* colour other than the tile's; otherwise it returns the sum, over the active
\* unmasked positions whose non-zero desired colour differs from the tile's, of
\* 1 where the tile has colour 0 and of the transition penalty elsewhere.
\* Inactive positions neither reject nor add penalty.
C17_ScoringRule ==
    (call.fn = "score_tile" /\ call.done) =>
        LET act == ActiveSet(ts.set_type)
            rej == \E i \in act :
                       /\ call.cell.mask[i + 1]
                       /\ color_at_index(call.cell.desired, i) # color_at_index(call.wang, i)
        IN  IF rej THEN ret = Rejected
            ELSE ret = PenaltyOver(call.cell, call.wang, act)

\* C17 witness: in Corner mode a tile was scored that differs from the masked
\* colour at the inactive position 0 and was charged a penalty at corner 1.
C17_Witness ==
    /\ call.fn = "score_tile" /\ call.done
    /\ ts.set_type = "Corner"
    /\ call.cell.mask[1]
    /\ color_at_index(call.cell.desired, 0) # color_at_index(call.wang, 0)
    /\ ret > 0

\* The tiles find_best_match scores, and those score_tile does not reject.
Terrained(t) ==
    {tile_id \in DOMAIN t.tile_terrains : has_any_terrain(get_tile_terrain(t, tile_id))}

PenaltyOf(t, cell, tile_id) == score_tile(t, cell, TileWang(t, tile_id))

Accepted(t, cell) ==
    {tile_id \in Terrained(t) : PenaltyOf(t, cell, tile_id) # Rejected}

MinPenalty(t, cell) ==
    CHOOSE p \in {PenaltyOf(t, cell, a) : a \in Accepted(t, cell)} :
        \A a \in Accepted(t, cell) : p <= PenaltyOf(t, cell, a)

MatchDone == call.fn = "find_best_match" /\ call.done

\* C18 as stated: find_best_match returns none iff every tile carrying terrain
\* is rejected; otherwise the tile returned carries terrain, is not rejected,
\* and its penalty equals the minimum penalty over the non-rejected tiles.
C18_SelectionExactMinimum ==
    MatchDone =>
        IF Accepted(ts, call.cell) = {} THEN ret = NoTile
        ELSE /\ ret \in Accepted(ts, call.cell)
             /\ PenaltyOf(ts, call.cell, ret) = MinPenalty(ts, call.cell)

\* C18 amended: find_best_match returns none iff every tile carrying terrain
\* is rejected; otherwise the tile returned carries terrain, is not rejected,
\* and its penalty is less than f32::EPSILON above the minimum penalty over
\* the non-rejected tiles.
C18_SelectionWithinEpsilon ==
    MatchDone =>
        IF Accepted(ts, call.cell) = {} THEN ret = NoTile
        ELSE /\ ret \in Accepted(ts, call.cell)
             /\ PenaltyOf(ts, call.cell, ret) - MinPenalty(ts, call.cell) < Epsilon

\* C18 witness: a tile above the minimum was returned while another accepted
\* tile, EPSILON or more above the minimum, was left out.
C18_Witness ==
    /\ MatchDone
    /\ ret \in Accepted(ts, call.cell)
    /\ PenaltyOf(ts, call.cell, ret) > MinPenalty(ts, call.cell)
    /\ \E a \in Accepted(ts, call.cell) :
           PenaltyOf(ts, call.cell, a) - MinPenalty(ts, call.cell) >= Epsilon

\* The tile t whose span [t * size, (t + 1) * size) holds the world coordinate.
TileUnder(world, size) ==
    CHOOSE t \in (0 - MaxWorld - 1) .. (MaxWorld + 1) :
        /\ t * size * FixedOne <= world
        /\ world < (t + 1) * size * FixedOne

NonNegative(n) == IF n < 0 THEN 0 ELSE n

TargetDone == call.fn = "get_paint_target" /\ call.done

\* C19: get_paint_target returns only Corner targets in Corner mode and only
\* HorizontalEdge / VerticalEdge targets in Edge mode; in every mode each
\* returned coordinate is max(0, t) or max(0, t + 1), t being the floor tile
\* coordinate on that axis, so no coordinate is negative.
C19_TargetKindAndRange ==
    TargetDone =>
        LET tx == TileUnder(call.world_x, call.tile_size)
            ty == TileUnder(call.world_y, call.tile_size)
        IN  /\ ts.set_type = "Corner" => ret.kind = "Corner"
            /\ ts.set_type = "Edge" => ret.kind \in {"HorizontalEdge", "VerticalEdge"}
            /\ ret.a \in {NonNegative(tx), NonNegative(tx + 1)}
            /\ ret.b \in {NonNegative(ty), NonNegative(ty + 1)}
            /\ ret.a >= 0 /\ ret.b >= 0

\* C19 witness: an edge target was returned in Edge mode for a position whose
\* tile and next tile both lie left of the origin, and one above it.
C19_Witness ==
    /\ TargetDone
    /\ ts.set_type = "Edge"
    /\ ret.kind = "VerticalEdge"
    /\ TileUnder(call.world_x, call.tile_size) < 0 - 1
    /\ TileUnder(call.world_y, call.tile_size) = 1
    /\ ret.a = 0 /\ ret.b = 1

\* The cells at which grid h differs from grid g.
Rewritten(g, h) ==
    {c \in GridCoords : TileAt(h, c) # TileAt(g, c)}

\* C20: during Phase 3 the constraint map and the emptied correction queue
\* stay as they are and the list taken from the queue is not extended; the
\* list holds no coordinate twice and each step moves to the next entry, so
\* every queued coordinate is evaluated once; a step writes at most the cell
\* under evaluation, which no earlier step has written.
C20_SinglePassCorrections ==
    [][pc = "phase3" =>
          /\ cells' = cells
          /\ corrections = <<>> /\ corrections' = <<>>
          /\ correction_list' = correction_list
          /\ \A i, j \in 1 .. Len(correction_list) :
                 i # j => correction_list[i] # correction_list[j]
          /\ ri <= Len(correction_list) =>
                 /\ pc' = "phase3" /\ ri' = ri + 1
                 /\ Rewritten(tiles, tiles') \cup Rewritten(preview_tiles, preview_tiles')
                        \subseteq {correction_list[ri]} \ corrected
          /\ ri > Len(correction_list) =>
                 /\ pc' = "applied"
                 /\ tiles' = tiles /\ preview_tiles' = preview_tiles]_vars

\* C20 witness: Phase 3 has evaluated its whole list and wrote a tile.
C20_Witness ==
    /\ pc = "phase3"
    /\ correction_list # <<>>
    /\ ri > Len(correction_list)
    /\ corrected # {}

\* C21: at every point of Phase 2 the correction queue holds no coordinate
\* twice, and every queued coordinate is in bounds, outside the region and one
\* of the 8 neighbours of a region cell in which a tile was placed; a
\* coordinate joins the queue only while it holds a tile with terrain data that
\* differs from a non-zero desired colour at a hard-masked position of its
\* record, and Phase 2 never removes a coordinate from the queue.
C21_CorrectionQueue ==
    [][pc' = "phase2" =>
          /\ \A i, j \in 1 .. Len(corrections') :
                 i # j => corrections'[i] # corrections'[j]
          /\ \A j \in 1 .. Len(corrections') :
                 LET n == corrections'[j]
                 IN  /\ n[1] >= 0 /\ n[1] < W /\ n[2] >= 0 /\ n[2] < H
                     /\ \A r \in 1 .. Len(region') : region'[r] # n
                     /\ \E c \in placed' : \E d \in Positions : Neighbor(c, d) = n
          /\ pc = "phase2" =>
                 /\ Len(corrections') >= Len(corrections)
                 /\ \A j \in 1 .. Len(corrections) : corrections'[j] = corrections[j]
                 /\ \A j \in Len(corrections) + 1 .. Len(corrections') :
                        LET n == corrections'[j]
                            tile == TileAt(Buf', n)
                        IN  /\ tile # NoTile
                            /\ tile \in DOMAIN ts.tile_terrains
                            /\ n \in DOMAIN cells'
                            /\ \E i \in Positions :
                                   /\ cells'[n].mask[i + 1]
                                   /\ cells'[n].desired[i + 1] # 0
                                   /\ cells'[n].desired[i + 1] # TileWang(ts, tile)[i + 1]]_vars

\* C21 witness: Phase 2 has queued a coordinate for correction.
C21_Witness == pc = "phase2" /\ corrections # <<>>

\* C22: when a Phase 2 step places tile T in cell c, every neighbour n in
\* direction i that is in bounds and non-empty has, right after the step,
\* mask[opposite(i)] set and desired[opposite(i)] equal to T's colour at i;
\* the record of every other coordinate (out of bounds, empty, or no neighbour
\* of c) is what it was, and no record is created for it.
C22_PropagationRule ==
    [][(/\ pc = "phase2" /\ ri <= Len(region)
        /\ InBounds(region[ri])
        /\ Candidates(ts, GetCell(cells, region[ri])) # <<>>) =>
          LET c == region[ri]
              T == TileWang(ts, TileAt(Buf', c))
              Hit == {n \in GridCoords :
                         /\ TileAt(Buf', n) # NoTile
                         /\ \E i \in Positions : Neighbor(c, i) = n}
          IN  /\ TileAt(Buf', c) # NoTile
              /\ \A i \in Positions :
                     Neighbor(c, i) \in Hit =>
                         /\ Neighbor(c, i) \in DOMAIN cells'
                         /\ cells'[Neighbor(c, i)].mask[((i + 4) % 8) + 1]
                         /\ cells'[Neighbor(c, i)].desired[((i + 4) % 8) + 1] = T[i + 1]
              /\ \A n \in (DOMAIN cells \cup DOMAIN cells') \ Hit :
                     n \in DOMAIN cells /\ n \in DOMAIN cells' /\ cells'[n] = cells[n]]_vars

\* C22 witness: a tile was just placed next to a non-empty cell outside the
\* region, which was constrained, and next to a still empty region cell.
C22_Witness ==
    /\ pc = "phase2" /\ ri > 1 /\ ri <= Len(region)
    /\ region[ri - 1] \in placed
    /\ \E i \in Positions :
           LET n == Neighbor(region[ri - 1], i)
           IN  /\ InBounds(n) /\ n \notin SeqSet(region)
               /\ TileAt(Buf, n) # NoTile
               /\ n \in DOMAIN cells
               /\ cells[n].mask[((i + 4) % 8) + 1]
    /\ \E j \in Positions :
           /\ Neighbor(region[ri - 1], j) = region[ri]
           /\ InBounds(region[ri])
           /\ TileAt(Buf, region[ri]) = NoTile
           /\ ~cells[region[ri]].mask[((j + 4) % 8) + 1]

\* C23: no step of Phase 1 writes the grid, and when Phase 1 ends every region
\* cell c has, at each position i that is not hard-masked and whose neighbour
\* in direction i is in bounds and holds a tile with colour k # 0 at
\* opposite(i), desired[i] = k, whatever colour c's own tile has at i.
C23_PhaseOneSurroundings ==
    [][pc = "phase1" =>
          /\ tiles' = tiles /\ preview_tiles' = preview_tiles
          /\ pc' = "phase2" =>
                 \A r \in 1 .. Len(region) : \A i \in Positions :
                     LET c == region[r]
                         n == <<c[1] + NEIGHBOR_OFFSETS[i + 1][1],
                                c[2] + NEIGHBOR_OFFSETS[i + 1][2]>>
                         k == IF n \in GridCoords /\ TileAt(Buf, n) \in DOMAIN ts.tile_terrains
                              THEN TileWang(ts, TileAt(Buf, n))[((i + 4) % 8) + 1]
                              ELSE 0
                     IN  (~cells'[c].mask[i + 1] /\ k # 0) =>
                             cells'[c].desired[i + 1] = k]_vars

\* C23 witness: Phase 1 has ended with a region cell whose own tile has one
\* colour at a position and whose neighbour there contributed another, which
\* the record holds.
C23_Witness ==
    /\ pc = "phase2" /\ ri = 1
    /\ \E r \in 1 .. Len(region) : \E i \in Positions :
           LET c == region[r]
               n == Neighbor(c, i)
           IN  /\ InBounds(c) /\ InBounds(n)
               /\ TileAt(Buf, c) \in DOMAIN ts.tile_terrains
               /\ TileAt(Buf, n) \in DOMAIN ts.tile_terrains
               /\ TileWang(ts, TileAt(Buf, c))[i + 1] # 0
               /\ TileWang(ts, TileAt(Buf, n))[((i + 4) % 8) + 1] # 0
               /\ TileWang(ts, TileAt(Buf, c))[i + 1]
                      # TileWang(ts, TileAt(Buf, n))[((i + 4) % 8) + 1]
               /\ ~cells[c].mask[i + 1]
               /\ cells[c].desired[i + 1] = TileWang(ts, TileAt(Buf, n))[((i + 4) % 8) + 1]

\* C24: tile_terrain_to_wang_id puts Corner slots TL, TR, BL, BR at positions
\* 7, 1, 5, 3, Edge slots Top, Right, Bottom, Left at 0, 2, 4, 6 and Mixed
\* slots TL, Top, TR, Right, BR, Bottom, BL, Left at 7, 0, 1, 2, 3, 4, 5, 6; a
\* position whose slot is absent, and every position without a slot, has
\* colour 0, so the positions inactive for the mode are 0.
C24_SlotMapping ==
    (call.fn = "tile_terrain_to_wang_id" /\ call.done) =>
        LET table == CASE ts.set_type = "Corner" -> <<7, 1, 5, 3>>
                       [] ts.set_type = "Edge"   -> <<0, 2, 4, 6>>
                       [] ts.set_type = "Mixed"  -> <<7, 0, 1, 2, 3, 4, 5, 6>>
            inactive == CASE ts.set_type = "Corner" -> {0, 2, 4, 6}
                          [] ts.set_type = "Edge"   -> {1, 3, 5, 7}
                          [] ts.set_type = "Mixed"  -> {}
        IN  /\ \A k \in 1 .. Len(table) :
                   ret[table[k] + 1] =
                       IF k \in DOMAIN call.data /\ call.data[k] # NoTerrain
                       THEN call.data[k] + 1 ELSE 0
            /\ \A p \in 0 .. 7 :
                   (\A k \in 1 .. Len(table) : table[k] # p) => ret[p + 1] = 0
            /\ \A p \in inactive : ret[p + 1] = 0

\* C24 witness: terrain data of 8 slots was converted in Corner mode, with a
\* terrain in a slot past the fourth and the BL slot absent.
C24_Witness ==
    /\ call.fn = "tile_terrain_to_wang_id" /\ call.done
    /\ ts.set_type = "Corner"
    /\ Len(call.data) = 8
    /\ call.data[6] = 1 /\ call.data[3] = NoTerrain /\ call.data[2] = 1
    /\ ret[2] = 2 /\ ret[6] = 0

\* A grid tile whose id has no entry in the terrain set.
NoEntry(tile) == tile # NoTile /\ tile \notin DOMAIN ts.tile_terrains

\* The colour a tile with an entry shows at position i, 0 for any other cell.
EntryColor(g, n, i) ==
    IF n \in GridCoords /\ TileAt(g, n) \in DOMAIN ts.tile_terrains
    THEN TileWang(ts, TileAt(g, n))[i + 1] ELSE 0

\* C25: a tile without an entry in the terrain set counts for nothing in
\* Phase 1: the record of an in-bounds region cell gets, at an unmasked
\* position, the colour of the neighbour's tile if that tile has an entry and
\* a non-zero colour there, else that of its own tile under the same
\* condition, else keeps what it had. Outside the region such a tile is never
\* queued for correction and never overwritten by apply, while the placement
\* of a tile next to it still records a hard constraint for its cell.
C25_TilesWithoutTerrainData ==
    [][(pc = "phase1" \/ pc = "phase2" \/ pc = "phase3") =>
          /\ \A n \in GridCoords \ SeqSet(region) :
                 NoEntry(TileAt(Buf, n)) =>
                     /\ TileAt(Buf', n) = TileAt(Buf, n)
                     /\ \A j \in 1 .. Len(corrections') : corrections'[j] # n
                     /\ \A j \in 1 .. Len(correction_list') : correction_list'[j] # n
          /\ (pc = "phase1" /\ ri' = ri + 1 /\ region[ri] \in GridCoords) =>
                 LET c == region[ri]
                     old == IF c \in DOMAIN cells THEN cells[c]
                            ELSE [desired |-> <<0, 0, 0, 0, 0, 0, 0, 0>>,
                                  mask |-> [k \in 1 .. 8 |-> FALSE]]
                 IN  \A i \in Positions :
                         LET k == EntryColor(Buf, Neighbor(c, i), (i + 4) % 8)
                             own == EntryColor(Buf, c, i)
                         IN  cells'[c].desired[i + 1] =
                                 IF ~old.mask[i + 1] /\ k # 0 THEN k
                                 ELSE IF ~old.mask[i + 1] /\ own # 0 THEN own
                                 ELSE old.desired[i + 1]
          /\ (/\ pc = "phase2" /\ ri <= Len(region) /\ region[ri] \in GridCoords
              /\ Candidates(ts, GetCell(cells, region[ri])) # <<>>) =>
                 \A i \in Positions :
                     LET n == Neighbor(region[ri], i)
                     IN  (n \in GridCoords /\ NoEntry(TileAt(Buf, n))) =>
                             /\ n \in DOMAIN cells'
                             /\ cells'[n].mask[((i + 4) % 8) + 1]]_vars

\* C25 witness: a tile was placed next to a tile without terrain data that
\* lies outside the region; its cell carries a hard constraint, the tile is
\* still there and nothing is queued.
C25_Witness ==
    /\ pc = "phase3"
    /\ ri > Len(correction_list)
    /\ \E c \in placed : \E i \in Positions :
           LET n == Neighbor(c, i)
           IN  /\ n \in GridCoords \ SeqSet(region)
               /\ NoEntry(TileAt(Buf, n))
               /\ TileAt(Buf, n) = TileAt(tiles0, n)
               /\ n \in DOMAIN cells
               /\ cells[n].mask[((i + 4) % 8) + 1]
               /\ cells[n].desired[((i + 4) % 8) + 1] # 0

\* C26: update_tile_with_neighbors changes no grid cell other than (x, y), and
\* no cell at all when (x, y) is out of bounds.
C26_UpdatesSingleTile ==
    op = "update" =>
        \A n \in GridCoords :
            n # <<targets[1].a, targets[1].b>> => TileAt(tiles, n) = TileAt(tiles0, n)

\* C27: a step of apply changes the grid only at cells that are region cells
\* or one of the 8 neighbours of a region cell, and such a cell holds a tile
\* afterwards: no cell is emptied, no cell farther than 1 from the region is
\* touched, and the grid keeps its cells.
C27_WriteFootprint ==
    [][(pc = "phase1" \/ pc = "phase2" \/ pc = "phase3") =>
          /\ DOMAIN tiles' = DOMAIN tiles
          /\ DOMAIN preview_tiles' = DOMAIN preview_tiles
          /\ \A n \in Rewritten(tiles, tiles') \cup Rewritten(preview_tiles, preview_tiles') :
                 /\ TileAt(Buf', n) # NoTile
                 /\ \E r \in 1 .. Len(region) :
                        /\ n[1] - region[r][1] \in {-1, 0, 1}
                        /\ n[2] - region[r][2] \in {-1, 0, 1}]_vars

\* C27 witness: apply has returned after writing a region cell and rewriting a
\* neighbour outside the region.
C27_Witness ==
    /\ pc = "applied"
    /\ op \in {"paint", "apply", "update"}
    /\ \E c \in placed : TileAt(tiles, c) # TileAt(tiles0, c)
    /\ \E n \in corrected :
           /\ n \notin SeqSet(region)
           /\ TileAt(tiles, n) # TileAt(tiles0, n)
           /\ TileAt(tiles0, n) # NoTile

\* C28: a tile that Phase 2 or Phase 3 writes has, at every hard-masked active
\* position of its cell's record as the record stands when the tile is
\* written, the record's desired colour (0 included); and when Phase 3 ends no
\* cell it rewrote violates a hard constraint of its record.
C28_SatisfiedAtWrite ==
    [][/\ (/\ pc = "phase2" /\ ri <= Len(region) /\ region[ri] \in GridCoords
           /\ Candidates(ts, GetCell(cells, region[ri])) # <<>>) =>
              \A i \in ActiveSet(ts.set_type) :
                  GetCell(cells, region[ri]).mask[i + 1] =>
                      TileWang(ts, TileAt(Buf', region[ri]))[i + 1]
                          = GetCell(cells, region[ri]).desired[i + 1]
       /\ (/\ pc = "phase3" /\ ri <= Len(correction_list)
           /\ correction_list[ri] \in corrected') =>
              /\ correction_list[ri] \in DOMAIN cells
              /\ \A i \in ActiveSet(ts.set_type) :
                     cells[correction_list[ri]].mask[i + 1] =>
                         TileWang(ts, TileAt(Buf', correction_list[ri]))[i + 1]
                             = cells[correction_list[ri]].desired[i + 1]
       /\ (pc = "phase3" /\ pc' = "applied") =>
              \A c \in corrected' : \A i \in Positions :
                  cells'[c].mask[i + 1] =>
                      \/ cells'[c].desired[i + 1] = 0
                      \/ cells'[c].desired[i + 1] = TileWang(ts, TileAt(Buf', c))[i + 1]]_vars

\* C28 witness: apply has returned after Phase 3 rewrote a cell whose record
\* masks an active position with a non-zero colour, in a set with edges.
C28_Witness ==
    /\ pc = "applied"
    /\ ts.set_type # "Corner"
    /\ \E c \in corrected : \E i \in {0, 2, 4, 6} :
           /\ cells[c].mask[i + 1]
           /\ cells[c].desired[i + 1] # 0
           /\ TileWang(ts, TileAt(Buf, c))[i + 1] = cells[c].desired[i + 1]

\* C29: the region a paint function hands to apply for a target is, element
\* by element, the sequence get_affected_region returns for that target.
C29_PreviewRegionIsPaintRegion ==
    (PaintOp /\ pc \in {"phase1", "phase2", "phase3", "applied"}) =>
        region = get_affected_region(targets[tix])

\* C29 witness: a paint and a preview each run on a target at the border of
\* the grid, where some of the cells sharing it are outside: a corner with two
\* of its four cells, a horizontal edge with both.
C29_Witness ==
    /\ op = "paint" /\ pc = "phase2"
    /\ \/ /\ targets[tix].kind = "Corner"
          /\ Len(region) = 2
          /\ targets[tix].a = 0
       \/ /\ targets[tix].kind = "HorizontalEdge"
          /\ Len(region) = 2
    /\ region = get_affected_region(targets[tix])
    /\ original # <<>>

\* The offset of a world coordinate inside its tile, as a fraction of the
\* tile, and its distance to the nearer of the tile's two boundaries on that
\* axis.
OffsetIn(world, size) == (world - TileUnder(world, size) * size * FixedOne) \div size

ToBoundary(l) == IF l < FixedHalf THEN l ELSE FixedOne - l

\* C30: in Edge mode get_paint_target returns a HorizontalEdge exactly when
\* the position is closer to the bottom or top boundary of its tile than to
\* the left or right one, at the bottom when ly < 0.5 and at the top
\* otherwise, and else a VerticalEdge, at the left when lx < 0.5 and at the
\* right otherwise.
C30_NearestBoundary ==
    (TargetDone /\ ts.set_type = "Edge") =>
        LET tx == TileUnder(call.world_x, call.tile_size)
            ty == TileUnder(call.world_y, call.tile_size)
            lx == OffsetIn(call.world_x, call.tile_size)
            ly == OffsetIn(call.world_y, call.tile_size)
        IN  IF ToBoundary(ly) < ToBoundary(lx)
            THEN /\ ret.kind = "HorizontalEdge"
                 /\ ret.a = NonNegative(tx)
                 /\ ret.b = NonNegative(IF ly < FixedHalf THEN ty ELSE ty + 1)
            ELSE /\ ret.kind = "VerticalEdge"
                 /\ ret.a = NonNegative(IF lx < FixedHalf THEN tx ELSE tx + 1)
                 /\ ret.b = NonNegative(ty)
====
